---------------------------- MODULE Spec2Model ----------------------------
(***************************************************************************)
(* Annotation anchoring and viewport projection engine of Comment-Widget.  *)
(*                                                                         *)
(* Sixteen specifications share this module:                                *)
(*   Spec        the overlay, the comment store and the pin gesture        *)
(*               sessions (useComments.ts, CommentLayer.tsx,               *)
(*               CommentBubble.tsx, CommentWidget.tsx)                     *)
(*   SpecFilter  the visibility filter of CommentLayer.tsx applied to      *)
(*               bounded inputs                                            *)
(*   SpecCoord   the click -> document -> viewport coordinate transforms   *)
(*   SpecSel     generateSelector / selector resolution on bounded DOMs    *)
(*   SpecPath    the selector generators on trees deeper than the depth    *)
(*               limit of the path                                         *)
(*   SpecResolve a stored selector resolved against a later DOM            *)
(*   SpecPick    the element picker of createComment and of the drop       *)
(*               handler on bounded hit-test stacks                        *)
(*   SpecMode    the overlay's mode under toggle, show/hide, clicks,       *)
(*               submit/cancel, Escape and the navigation modifier         *)
(*   SpecValve   one pin's gesture session with its 5 s safety timer,      *)
(*               under fairness of the timer and of the clock              *)
(*   SpecStore   the store mutations with a storage adapter whose saves    *)
(*               may fail                                                  *)
(*   SpecDrag    the gesture sessions of one pin at the resolution of the  *)
(*               throttle, overlapping sessions included                   *)
(*   SpecLoad    the store while the initial loadComments() is in flight   *)
(*               and under pushes of the storage subscription              *)
(*   SpecRace    SpecLoad without deletions and pushes                     *)
(*   SpecFrame   a drag of one pin while the store changes under it        *)
(*   SpecHighlight the outline drawn on a host element on hover and drag   *)
(*   SpecGrace   the recently-dropped set and its removal timers, under    *)
(*               fairness of the timers and of the clock                   *)
(***************************************************************************)
EXTENDS Integers, Sequences, FiniteSets, TLC

(***************************************************************************)
(* JavaScript numbers.  Coordinates are IEEE doubles in the program; the   *)
(* model keeps the integers and the three non-finite values.               *)
(***************************************************************************)
Fin(n) == [k |-> "fin", v |-> n]
NaN == [k |-> "nan", v |-> 0]
PInf == [k |-> "inf", v |-> 1]
NInf == [k |-> "inf", v |-> -1]

FNeg(a) ==
  IF a.k = "nan" THEN NaN ELSE [k |-> a.k, v |-> 0 - a.v]

FAdd(a, b) ==
  IF a.k = "nan" \/ b.k = "nan" THEN NaN
  ELSE IF a.k = "inf" /\ b.k = "inf" THEN (IF a.v = b.v THEN a ELSE NaN)
  ELSE IF a.k = "inf" THEN a
  ELSE IF b.k = "inf" THEN b
  ELSE Fin(a.v + b.v)

FSub(a, b) == FAdd(a, FNeg(b))

\* a <= b on JavaScript numbers: false as soon as one side is NaN
FLe(a, b) ==
  IF a.k = "nan" \/ b.k = "nan" THEN FALSE
  ELSE IF a.k = "inf" THEN (a.v < 0 \/ (b.k = "inf" /\ b.v > 0))
  ELSE IF b.k = "inf" THEN b.v > 0
  ELSE a.v <= b.v

\* a < b on JavaScript numbers
FLt(a, b) ==
  IF a.k = "nan" \/ b.k = "nan" THEN FALSE
  ELSE IF a.k = "inf" THEN (a.v < 0 /\ ~(b.k = "inf" /\ b.v < 0))
  ELSE IF b.k = "inf" THEN b.v > 0
  ELSE a.v < b.v

FAbs(a) ==
  IF a.k = "nan" THEN NaN
  ELSE IF a.k = "inf" THEN PInf
  ELSE Fin(IF a.v < 0 THEN 0 - a.v ELSE a.v)

isNaN(a) == a.k = "nan"
isFinite(a) == a.k = "fin"

Pt(x, y) == [x |-> x, y |-> y]
FPt(p) == [x |-> Fin(p.x), y |-> Fin(p.y)]

NoId == 0

(***************************************************************************)
(* Program constants                                                       *)
(***************************************************************************)
dragThreshold == 3
ClickTimeMs == 150
ThrottleMs == 16
SafetyTimeoutMs == 5000
SidebarWidth == 320
margin == 200
AbsurdCoordinate == 100000

(***************************************************************************)
(* Visibility filter (CommentLayer.tsx, visibleComments).                  *)
(* env: scoped, sidebar, leftW (width of the host's config panel),         *)
(*      contOff (container rect + window scroll), contScroll, winScroll,   *)
(*      contW/contH (container client size), dimW/dimH (windowDimensions), *)
(*      dragging, recent, active.                                          *)
(* The widget root is attached (index.ts appends it to the container or    *)
(* to document.body), so the root-not-found fallbacks are not taken; in    *)
(* full-page mode the root's parent is document.body, so the search for a  *)
(* scrollable ancestor finds none.                                         *)
(***************************************************************************)
\* a conversion that leaves document coordinates as they are
RelativePosUnconverted(c, env) == [x |-> c.x, y |-> c.y]

\* .map(): document coordinates -> container-relative when scoped
RelativePos(c, env) ==
  IF env.scoped
  THEN [x |-> FSub(c.x, Fin(env.contOff.x)), y |-> FSub(c.y, Fin(env.contOff.y))]
  ELSE [x |-> c.x, y |-> c.y]

\* viewportX / viewportY of the filter step
FilterViewport(c, env) ==
  LET r == RelativePos(c, env) IN
  IF env.scoped
  THEN [x |-> FSub(r.x, Fin(env.contScroll.x)), y |-> FSub(r.y, Fin(env.contScroll.y))]
  ELSE [x |-> FSub(r.x, Fin(env.winScroll.x)), y |-> FSub(r.y, Fin(env.winScroll.y))]

\* a width that ignores the open sidebar
effectiveViewportWidthFull(env) == IF env.scoped THEN env.contW ELSE env.dimW

effectiveViewportWidth(env) ==
  IF env.scoped
  THEN env.contW - (IF env.sidebar THEN SidebarWidth ELSE 0)
  ELSE env.dimW - (IF env.sidebar THEN SidebarWidth ELSE 0)

effectiveViewportHeight(env) ==
  IF env.scoped THEN env.contH ELSE env.dimH

leftSidebarWidth(env) == IF env.scoped THEN 0 ELSE env.leftW

\* an exemption that forgets the active thread
IsExemptNotActive(c, env) == env.dragging = c.id \/ c.id \in env.recent

IsExempt(c, env) ==
  env.dragging = c.id \/ c.id \in env.recent \/ env.active = c.id

getMarginForComment(c, env) ==
  IF c.id \in env.recent \/ env.dragging = c.id \/ env.active = c.id
  THEN margin * 3 ELSE margin

hasValidCoordinates(v) ==
  /\ ~isNaN(v.x) /\ ~isNaN(v.y)
  /\ isFinite(v.x) /\ isFinite(v.y)
  /\ FLt(FAbs(v.x), Fin(AbsurdCoordinate))
  /\ FLt(FAbs(v.y), Fin(AbsurdCoordinate))

\* a filter tail without the margin test in either mode
FilterAfterExemptNoMargin(c, env) ==
  LET v == FilterViewport(c, env)
      isRecentlyInteracted == c.id \in env.recent \/ env.dragging = c.id
      lw == leftSidebarWidth(env)
      notUnderLeftSidebar == isRecentlyInteracted \/ lw = 0 \/ FLe(Fin(lw), v.x)
      notUnderRightSidebar == isRecentlyInteracted \/ ~env.sidebar
                                \/ FLe(v.x, Fin(effectiveViewportWidth(env)))
  IN hasValidCoordinates(v) /\ notUnderLeftSidebar /\ notUnderRightSidebar

FilterAfterExempt(c, env) ==
  LET v == FilterViewport(c, env)
      isRecentlyInteracted == c.id \in env.recent \/ env.dragging = c.id
      effW == effectiveViewportWidth(env)
      effH == effectiveViewportHeight(env)
      lw == leftSidebarWidth(env)
      notUnderLeftSidebar == isRecentlyInteracted \/ lw = 0 \/ FLe(Fin(lw), v.x)
      notUnderRightSidebar == isRecentlyInteracted \/ ~env.sidebar \/ FLe(v.x, Fin(effW))
      m == getMarginForComment(c, env)
      inX == FLe(Fin(0 - m), v.x) /\ FLe(v.x, Fin(effW + m))
      inY == FLe(Fin(0 - m), v.y) /\ FLe(v.y, Fin(effH + m))
  IN IF ~hasValidCoordinates(v) THEN FALSE
     ELSE IF env.scoped THEN notUnderLeftSidebar /\ notUnderRightSidebar
     ELSE inX /\ inY /\ notUnderLeftSidebar /\ notUnderRightSidebar

\* the .filter() callback: TRUE when the pin is mounted
FilterVisible(c, env) ==
  IF IsExempt(c, env) THEN TRUE ELSE FilterAfterExempt(c, env)

(***************************************************************************)
(* Coordinate transforms                                                   *)
(* fr: scoped, winScroll, contRect (container.getBoundingClientRect()      *)
(*     left/top as x/y), contScroll.                                       *)
(***************************************************************************)
\* onDocClick: viewport click point -> document coordinates
DocFromClick(p, fr) ==
  IF fr.scoped
  THEN LET offX == fr.contRect.x + fr.winScroll.x
           offY == fr.contRect.y + fr.winScroll.y
           relX == p.x - fr.contRect.x + fr.contScroll.x
           relY == p.y - fr.contRect.y + fr.contScroll.y
       IN Pt(relX + offX, relY + offY)
  ELSE Pt(p.x + fr.winScroll.x, p.y + fr.winScroll.y)

\* a hit-test conversion that forgets the container's scroll
HitTestViewportNoContainerScroll(d, fr) ==
  [x |-> FSub(d.x, Fin(fr.winScroll.x)), y |-> FSub(d.y, Fin(fr.winScroll.y))]

\* createComment: document coordinates -> viewport point for elementsFromPoint
\* (docX - window.scrollX, docY - window.scrollY in both modes)
createCommentViewport(d, fr) ==
  [x |-> FSub(d.x, Fin(fr.winScroll.x)), y |-> FSub(d.y, Fin(fr.winScroll.y))]

\* onDrag / onDragEnd: document coordinates -> viewport point for elementsFromPoint
HitTestViewport(d, fr) ==
  IF fr.scoped
  THEN LET cdX == fr.contRect.x + fr.winScroll.x
           cdY == fr.contRect.y + fr.winScroll.y
           relX == FSub(d.x, Fin(cdX))
           relY == FSub(d.y, Fin(cdY))
       IN [x |-> FSub(FAdd(Fin(fr.contRect.x), relX), Fin(fr.contScroll.x)),
           y |-> FSub(FAdd(Fin(fr.contRect.y), relY), Fin(fr.contScroll.y))]
  ELSE [x |-> FSub(d.x, Fin(fr.winScroll.x)), y |-> FSub(d.y, Fin(fr.winScroll.y))]


(***************************************************************************)
(* Bounds and input sets of the overlay specification                      *)
(***************************************************************************)
MaxComments == 1
MaxGestures == 1
MaxLive == 1
MaxTicks == 1

Ids == 1..(MaxComments + 1)
NoSel == "undefined"
Selectors == {"#hero"}
\* viewport points of pointer-down on a pin, of move / up events, of page clicks
DownPts == {Pt(300, 300)}
ClientPts == {Pt(303, 300), Pt(340, 290)}
ClickPts == {Pt(300, 300)}
ScrollVals == {Pt(0, 0), Pt(0, 20)}
TickSteps == {10, 150, 5000}
\* positions a host page may pass to the public startComment(position) API
ApiPositions == {[x |-> Fin(300), y |-> Fin(300)], [x |-> NaN, y |-> Fin(300)]}
\* document offset of the scoped container, size of the visible area
ContainerDocOffset == Pt(100, 200)
ViewportSize == Pt(800, 600)
\* Date.now() at mount
Epoch == 100000

VARIABLES
  \* useComments state
  comments, activeCommentId, isVisible, isCreatingComment, newCommentPosition,
  isSidebarOpen, nextId,
  \* argument of the latest saveComments call (<<>> before the first)
  lastSaved,
  \* CommentLayer state
  showPins, scrollOffsets, draggingCommentId, recentlyDraggedCommentIds,
  \* host page and configuration
  isScoped, winScroll, contScroll, now,
  \* CommentBubble: refs and state per pin, live gesture sessions
  clickStartPos, lastDragUpdate, isDragging, live,
  \* outcomes of the sessions ended by the latest pointer-up or timeout
  ended,
  \* model counters
  gestures, ticks,
  \* CommentLayer: the navigation modifier is held
  isNavigationMode,
  \* SpecMode: the latest events handled, each with the mode it found
  history,
  \* SpecValve: the 5 s timers set by handleMouseDown that have not fired, each
  \* with the cleanupCalled flag of its session
  timers,
  \* SpecStore: the saveComments calls whose promise has not settled, what the
  \* adapter has persisted, the number of errors logged, an exception or
  \* rejection that reached the caller
  saves, storage, errors, uncaught,
  \* SpecLoad: the loadComments() call of the mount effect
  load,
  \* SpecHighlight: a host element's inline outline and what the widget keeps
  \* about it
  hl,
  \* SpecGrace: the removal timers of the recently-dropped set that have not
  \* fired, and which kinds of timer have removed an id so far
  grace,
  \* SpecFilter
  fin, fout,
  \* SpecCoord
  cin, cout,
  \* SpecSel
  dom, target, selector, resolved, thrown,
  \* SpecPick: document.elementsFromPoint at the point, the picker's result
  stack, picked

overlayVars == <<comments, activeCommentId, isVisible, isCreatingComment,
                 newCommentPosition, isSidebarOpen, nextId, lastSaved, showPins,
                 scrollOffsets, draggingCommentId, recentlyDraggedCommentIds,
                 isScoped, winScroll, contScroll, now, clickStartPos,
                 lastDragUpdate, isDragging, live, ended, gestures, ticks,
                 isNavigationMode, history, timers, saves, storage, errors,
                 uncaught, load, hl, grace>>
\* the variables of SpecStore, SpecLoad, SpecHighlight and SpecGrace, which the overlay's
\* own actions leave alone
storeVars == <<saves, storage, errors, uncaught, load, hl, grace>>
filterVars == <<fin, fout>>
coordVars == <<cin, cout>>
selVars == <<dom, target, selector, resolved, thrown, stack, picked>>
vars == <<overlayVars, filterVars, coordVars, selVars>>

Null == <<>>
Some(v) == <<v>>

\* the promise of loadComments(): sent, answered by the backing store with
\* the list it held then, settled once the .then callback has run
LoadSettled == [phase |-> "settled", value |-> <<>>]

\* element.style.outline and element.style.outlineOffset
NoStyle == [outline |-> "", offset |-> ""]
HostStyle == [outline |-> "1px solid red", offset |-> "4px"]
WidgetStyle == [outline |-> "2px dashed", offset |-> "2px"]

\* no removal timer pending, none has fired
GraceIdle == [timers |-> <<>>, removed |-> {}]
\* a host element nothing has highlighted, no pin mounted
HighlightIdle ==
  [orig |-> NoStyle, style |-> NoStyle, hoverSaved |-> Null, attr |-> FALSE,
   dragSaved |-> Null, dragCur |-> FALSE, dragSet |-> FALSE, pinHl |-> FALSE,
   hovered |-> FALSE, dragging |-> FALSE, active |-> FALSE, mounted |-> FALSE]

\* the values the variables of the other specifications rest at
OverlayIdle ==
  /\ comments = <<>> /\ activeCommentId = NoId /\ isVisible = FALSE
  /\ isCreatingComment = FALSE /\ newCommentPosition = Null
  /\ isSidebarOpen = FALSE /\ nextId = 1 /\ lastSaved = Null
  /\ showPins = FALSE /\ scrollOffsets = Pt(0, 0) /\ draggingCommentId = NoId
  /\ recentlyDraggedCommentIds = {} /\ isScoped = FALSE
  /\ winScroll = Pt(0, 0) /\ contScroll = Pt(0, 0) /\ now = Epoch
  /\ clickStartPos = [i \in Ids |-> Null] /\ lastDragUpdate = [i \in Ids |-> 0]
  /\ isDragging = [i \in Ids |-> FALSE] /\ live = <<>> /\ ended = {}
  /\ gestures = 0 /\ ticks = 0
  /\ isNavigationMode = FALSE /\ history = <<>> /\ timers = <<>>
  /\ saves = <<>> /\ storage = Null /\ errors = 0 /\ uncaught = FALSE
  /\ load = LoadSettled /\ hl = HighlightIdle /\ grace = GraceIdle
FilterIdle == fin = Null /\ fout = Null
CoordIdle == cin = Null /\ cout = Null
SelIdle ==
  /\ dom = <<>> /\ target = 0 /\ selector = Null /\ resolved = Null
  /\ thrown = FALSE /\ stack = <<>> /\ picked = Null

(***************************************************************************)
(* Overlay: frame and render                                               *)
(***************************************************************************)
\* scroll offset of the effective scrolling element, read from the DOM
LiveScroll == IF isScoped THEN contScroll ELSE winScroll

\* container.getBoundingClientRect() left/top
ContRect == Pt(ContainerDocOffset.x - winScroll.x, ContainerDocOffset.y - winScroll.y)

Frame == [scoped |-> isScoped, winScroll |-> winScroll, contRect |-> ContRect,
          contScroll |-> contScroll]

RenderEnv ==
  [scoped |-> isScoped, sidebar |-> isSidebarOpen, leftW |-> 0,
   contOff |-> Pt(ContRect.x + winScroll.x, ContRect.y + winScroll.y),
   contScroll |-> contScroll, winScroll |-> winScroll,
   contW |-> ViewportSize.x, contH |-> ViewportSize.y,
   dimW |-> ViewportSize.x, dimH |-> ViewportSize.y,
   dragging |-> draggingCommentId, recent |-> recentlyDraggedCommentIds,
   active |-> activeCommentId]

\* {isVisible && showPins && visibleComments.map(...)}: the pin is mounted
PinMounted(c) == isVisible /\ showPins /\ FilterVisible(c, RenderEnv)


(***************************************************************************)
(* useComments: store mutations                                            *)
(***************************************************************************)
\* updateCommentPosition, on the comment list `cs` its closure captured
updateCommentPosition(cs, id, x, y, sel) ==
  [i \in DOMAIN cs |->
     IF cs[i].id = id
     THEN [cs[i] EXCEPT !.x = x, !.y = y,
                        !.selector = IF sel # NoSel THEN sel ELSE @]
     ELSE cs[i]]

\* the layer's onDrag / onDragEnd: the bubble's coordinates back to document space
LayerToDoc(pos) ==
  IF isScoped
  THEN [x |-> FAdd(pos.x, Fin(ContRect.x + winScroll.x)),
        y |-> FAdd(pos.y, Fin(ContRect.y + winScroll.y))]
  ELSE pos

(***************************************************************************)
(* CommentBubble: one gesture session per pointer-down.  The document      *)
(* listeners of every live session receive each move and up event, in the  *)
(* order they were registered; w is the state they read and write.         *)
(* The bubble is the revision whose props CommentLayer passes (it calls    *)
(* onDragStart when the threshold is crossed, src/unnamed/part_001); the   *)
(* handlers of src/src/core/CommentBubble.tsx are otherwise the same, and  *)
(* the touch handlers repeat the mouse handlers.                           *)
(***************************************************************************)
DistSq(p, q) == (p.x - q.x) * (p.x - q.x) + (p.y - q.y) * (p.y - q.y)

Max(a, b) == IF a >= b THEN a ELSE b

\* clickStartPos.current || { x: 0, y: 0 }
ViewportStart(w, id) ==
  IF w.clickStartPos[id] = Null THEN Pt(0, 0) ELSE w.clickStartPos[id][1]

\* startCommentPos + ((client + current scroll) - startMousePos)
DragPosition(s, p) ==
  LET deltaX == (p.x + LiveScroll.x) - s.startMousePos.x
      deltaY == (p.y + LiveScroll.y) - s.startMousePos.y
  IN [x |-> FAdd(s.startCommentPos.x, Fin(deltaX)),
      y |-> FAdd(s.startCommentPos.y, Fin(deltaY))]

\* where the list cs has the pin of comment id (Null when it has none)
PositionOf(cs, id) ==
  IF \E i \in DOMAIN cs : cs[i].id = id
  THEN LET i == CHOOSE j \in DOMAIN cs : cs[j].id = id
       IN Some([x |-> cs[i].x, y |-> cs[i].y])
  ELSE Null

\* an onDrag that hands the new list to saveComments and leaves the store
OnDragSavedOnly(w, s, pos) ==
  LET d == LayerToDoc(pos)
      updated == updateCommentPosition(s.comments, s.id, d.x, d.y, NoSel)
  IN [w EXCEPT !.lastSaved = Some(updated)]

\* onDrag(newX, newY) of the layer, with the closure of session s
OnDrag(w, s, pos) ==
  LET d == LayerToDoc(pos)
      updated == updateCommentPosition(s.comments, s.id, d.x, d.y, NoSel)
  IN [w EXCEPT !.comments = updated, !.lastSaved = Some(updated)]

\* onDragEnd(finalX, finalY) of the layer; sel is what the drop hit-test produced
OnDragEnd(w, s, pos, sel) ==
  LET d == LayerToDoc(pos)
      updated == updateCommentPosition(s.comments, s.id, d.x, d.y, sel)
  IN [w EXCEPT !.comments = updated, !.lastSaved = Some(updated),
               !.recent = @ \cup {s.id}, !.dragging = NoId,
               !.nCommit = @ + 1]

\* onClick of the layer, with the activeCommentId its closure captured
OnClick(w, s) ==
  [w EXCEPT !.active = IF s.activeAtDown = s.id THEN NoId ELSE s.id,
            !.nClick = @ + 1]

\* a cleanup that puts the comments back as the session found them
CleanupRollingBack(w, s) ==
  [w EXCEPT !.isDragging[s.id] = FALSE, !.clickStartPos[s.id] = Null,
            !.lastDragUpdate[s.id] = 0, !.comments = s.comments]

\* cleanup() of the session
Cleanup(w, s) ==
  [w EXCEPT !.isDragging[s.id] = FALSE, !.clickStartPos[s.id] = Null,
            !.lastDragUpdate[s.id] = 0]

\* the drag threshold test of handleMouseMove
ExceedsThreshold(distSq) == distSq > dragThreshold * dragThreshold

\* a throttle that lets every move through
ThrottleOpen(last) == now - last >= 0

\* the throttle test of handleMouseMove
ThrottlePassed(last) == now - last > ThrottleMs

\* handleMouseMove / handleTouchMove of session s
HandleMouseMove(w, s, p) ==
  LET distSq == DistSq(p, ViewportStart(w, s.id))
      enter == ~s.hasDragged /\ ExceedsThreshold(distSq)
      dragged == s.hasDragged \/ enter
      w1 == IF enter
            THEN [w EXCEPT !.isDragging[s.id] = TRUE, !.dragging = s.id]
            ELSE w
      emit == dragged /\ ThrottlePassed(w1.lastDragUpdate[s.id])
      w2 == IF emit
            THEN [OnDrag(w1, s, DragPosition(s, p)) EXCEPT !.lastDragUpdate[s.id] = now]
            ELSE w1
      \* what an observer of the session notes: the distance from its own
      \* pointer-down point, the updates it emitted and when
      far == Max(s.farDown, DistSq(p, s.downClient))
  IN [w2 EXCEPT !.keep = Append(@,
        [s EXCEPT !.hasDragged = dragged,
                  !.farthest = Max(@, distSq),
                  !.farDown = far,
                  !.nEnter = IF enter THEN (IF @ < 2 THEN @ + 1 ELSE @) ELSE @,
                  !.emittedEarly = @ \/ (emit /\ ~ExceedsThreshold(far)),
                  !.tooClose = @ \/ (emit /\ s.emitted
                                          /\ now - s.lastEmitAt <= ThrottleMs),
                  !.misapplied = @ \/ (emit /\ PositionOf(w2.comments, s.id)
                                               # Some(LayerToDoc(DragPosition(s, p)))),
                  !.emitted = @ \/ emit,
                  !.lastEmitAt = IF emit THEN now ELSE @])]

\* the commit test of handleMouseUp: if (hasDragged && onDrag)
IsCommit(hasDragged) == hasDragged

\* a click test that ignores the elapsed time
IsClickAnyTime(hasDragged, distSq, timeDiff) ==
  ~hasDragged /\ distSq <= dragThreshold * dragThreshold

\* the click test of handleMouseUp
IsClick(hasDragged, distSq, timeDiff) ==
  ~hasDragged /\ distSq <= dragThreshold * dragThreshold /\ timeDiff < ClickTimeMs

\* handleMouseUp / handleTouchEnd of session s
HandleMouseUp(w, s, p, sel) ==
  LET timeDiff == now - s.startTime
      distSq == DistSq(p, ViewportStart(w, s.id))
      pos == DragPosition(s, p)
      w1 == IF IsCommit(s.hasDragged)
            THEN OnDragEnd(OnDrag(w, s, pos), s, pos, sel) ELSE w
      w2 == IF IsClick(s.hasDragged, distSq, timeDiff) THEN OnClick(w1, s) ELSE w1
      outcome == [id |-> s.id, how |-> "up", dragged |-> s.hasDragged,
                  farthest |-> s.farthest,
                  committed |-> w1.nCommit > w.nCommit,
                  clicked |-> w2.nClick > w1.nClick,
                  farDown |-> s.farDown, nEnter |-> s.nEnter,
                  emittedEarly |-> s.emittedEarly, tooClose |-> s.tooClose,
                  misapplied |-> s.misapplied, emitted |-> s.emitted,
                  lastEmitAt |-> s.lastEmitAt,
                  storedAtEnd |-> PositionOf(w2.comments, s.id),
                  pos |-> LayerToDoc(pos), elapsed |-> timeDiff,
                  codeDistSq |-> distSq, distSq |-> DistSq(p, s.downClient),
                  pinStart |-> s.pinStart, downClient |-> s.downClient,
                  downScroll |-> s.downScroll, upClient |-> p,
                  upScroll |-> LiveScroll, startMousePos |-> s.startMousePos]
  IN [Cleanup(w2, s) EXCEPT !.out = @ \cup {outcome}]

RECURSIVE MoveAll(_, _, _)
MoveAll(w, ss, p) ==
  IF ss = <<>> THEN w ELSE MoveAll(HandleMouseMove(w, Head(ss), p), Tail(ss), p)

RECURSIVE UpAll(_, _, _, _)
UpAll(w, ss, p, sel) ==
  IF ss = <<>> THEN w ELSE UpAll(HandleMouseUp(w, Head(ss), p, sel), Tail(ss), p, sel)

World ==
  [comments |-> comments, lastSaved |-> lastSaved, active |-> activeCommentId,
   dragging |-> draggingCommentId, recent |-> recentlyDraggedCommentIds,
   clickStartPos |-> clickStartPos, lastDragUpdate |-> lastDragUpdate,
   isDragging |-> isDragging, keep |-> <<>>, out |-> {}, nCommit |-> 0,
   nClick |-> 0]

SetWorld(w) ==
  /\ comments' = w.comments
  /\ lastSaved' = w.lastSaved
  /\ activeCommentId' = w.active
  /\ draggingCommentId' = w.dragging
  /\ recentlyDraggedCommentIds' = w.recent
  /\ clickStartPos' = w.clickStartPos
  /\ lastDragUpdate' = w.lastDragUpdate
  /\ isDragging' = w.isDragging

\* handleMouseDown / handleTouchStart on the mounted pin of comment i at point p
handleMouseDown(i, p) ==
  /\ i \in DOMAIN comments
  /\ PinMounted(comments[i])
  /\ LET c == comments[i]
         r == RelativePos(c, RenderEnv)
         s == [id |-> c.id, startTime |-> now,
               startMousePos |-> Pt(p.x + scrollOffsets.x, p.y + scrollOffsets.y),
               startCommentPos |-> r, hasDragged |-> FALSE,
               comments |-> comments, activeAtDown |-> activeCommentId,
               pinStart |-> [x |-> c.x, y |-> c.y], downClient |-> p,
               downScroll |-> LiveScroll, farthest |-> 0,
               farDown |-> 0, nEnter |-> 0, emittedEarly |-> FALSE,
               tooClose |-> FALSE, misapplied |-> FALSE, emitted |-> FALSE,
               lastEmitAt |-> 0]
     IN /\ live' = Append(live, s)
        /\ clickStartPos' = [clickStartPos EXCEPT ![c.id] = Some(p)]
  /\ gestures' = gestures + 1
  /\ ended' = {}
  /\ UNCHANGED <<comments, activeCommentId, isVisible, isCreatingComment,
                 newCommentPosition, isSidebarOpen, nextId, lastSaved, showPins,
                 scrollOffsets, draggingCommentId, recentlyDraggedCommentIds,
                 isScoped, winScroll, contScroll, now, lastDragUpdate,
                 isDragging, ticks>>
  /\ UNCHANGED <<filterVars, coordVars, selVars, isNavigationMode>>

\* a pointer-down within the bounds of the overlay specification
PointerDown(i, p) ==
  /\ gestures < MaxGestures
  /\ Len(live) < MaxLive
  /\ handleMouseDown(i, p)

\* a mousemove / touchmove event on the document
PointerMove(p) ==
  /\ live # <<>>
  /\ LET w == MoveAll(World, live, p)
     IN SetWorld(w) /\ live' = w.keep
  /\ UNCHANGED <<isVisible, isCreatingComment, newCommentPosition, isSidebarOpen,
                 nextId, showPins, scrollOffsets, isScoped, winScroll, contScroll,
                 now, gestures, ticks>>
  /\ ended' = {}
  /\ UNCHANGED <<filterVars, coordVars, selVars, isNavigationMode>>

\* a mouseup / touchend event on the document
PointerUp(p, sel) ==
  /\ live # <<>>
  /\ LET w == UpAll(World, live, p, sel)
     IN SetWorld(w) /\ ended' = w.out
  /\ live' = <<>>
  /\ UNCHANGED <<isVisible, isCreatingComment, newCommentPosition, isSidebarOpen,
                 nextId, showPins, scrollOffsets, isScoped, winScroll, contScroll,
                 now, gestures, ticks>>
  /\ UNCHANGED <<filterVars, coordVars, selVars, isNavigationMode>>

\* the 5 s setTimeout of handleMouseDown fires for the k-th live session
SafetyTimeout(k) ==
  /\ k \in DOMAIN live
  /\ now - live[k].startTime >= SafetyTimeoutMs
  /\ LET s == live[k]
         w == Cleanup(World, s)
     IN /\ SetWorld(w)
        /\ ended' = {[id |-> s.id, how |-> "timeout", dragged |-> s.hasDragged,
                      farthest |-> s.farthest,
                      committed |-> FALSE, clicked |-> FALSE,
                      farDown |-> s.farDown, nEnter |-> s.nEnter,
                      emittedEarly |-> s.emittedEarly, tooClose |-> s.tooClose,
                      misapplied |-> s.misapplied, emitted |-> s.emitted,
                      lastEmitAt |-> s.lastEmitAt,
                      storedAtEnd |-> PositionOf(comments, s.id),
                      pos |-> s.pinStart, elapsed |-> now - s.startTime,
                      codeDistSq |-> 0, distSq |-> 0, pinStart |-> s.pinStart,
                      downClient |-> s.downClient, downScroll |-> s.downScroll,
                      upClient |-> s.downClient, upScroll |-> LiveScroll,
                      startMousePos |-> s.startMousePos]}
  /\ live' = [j \in 1..(Len(live) - 1) |-> IF j < k THEN live[j] ELSE live[j + 1]]
  /\ UNCHANGED <<isVisible, isCreatingComment, newCommentPosition, isSidebarOpen,
                 nextId, showPins, scrollOffsets, isScoped, winScroll, contScroll,
                 now, gestures, ticks>>
  /\ UNCHANGED <<filterVars, coordVars, selVars, isNavigationMode>>

(***************************************************************************)
(* Host page: time, scrolling, and the layer's re-measure                  *)
(***************************************************************************)
\* time passes; the clock is read by the gesture sessions only
Tick(d) ==
  /\ live # <<>>
  /\ ticks < MaxTicks
  /\ now' = now + d
  /\ ticks' = ticks + 1
  /\ UNCHANGED <<comments, activeCommentId, isVisible, isCreatingComment,
                 newCommentPosition, isSidebarOpen, nextId, lastSaved, showPins,
                 scrollOffsets, draggingCommentId, recentlyDraggedCommentIds,
                 isScoped, winScroll, contScroll, clickStartPos, lastDragUpdate,
                 isDragging, live, gestures>>
  /\ ended' = {}
  /\ UNCHANGED <<filterVars, coordVars, selVars, isNavigationMode>>

\* the user scrolls the window (in the scoped configuration the page around
\* the container fits the window and only the container scrolls)
ScrollWindow(v) ==
  /\ ~isScoped
  /\ v # winScroll
  /\ winScroll' = v
  /\ UNCHANGED <<comments, activeCommentId, isVisible, isCreatingComment,
                 newCommentPosition, isSidebarOpen, nextId, lastSaved, showPins,
                 scrollOffsets, draggingCommentId, recentlyDraggedCommentIds,
                 isScoped, contScroll, now, clickStartPos, lastDragUpdate,
                 isDragging, live, gestures, ticks>>
  /\ ended' = {}
  /\ UNCHANGED <<filterVars, coordVars, selVars, isNavigationMode>>

\* the user scrolls the scoped container
ScrollContainer(v) ==
  /\ isScoped
  /\ v # contScroll
  /\ contScroll' = v
  /\ UNCHANGED <<comments, activeCommentId, isVisible, isCreatingComment,
                 newCommentPosition, isSidebarOpen, nextId, lastSaved, showPins,
                 scrollOffsets, draggingCommentId, recentlyDraggedCommentIds,
                 isScoped, winScroll, now, clickStartPos, lastDragUpdate,
                 isDragging, live, gestures, ticks>>
  /\ ended' = {}
  /\ UNCHANGED <<filterVars, coordVars, selVars, isNavigationMode>>

\* measureContainer (scroll / resize listener, ResizeObserver, after a drop)
measureContainer ==
  /\ scrollOffsets # LiveScroll
  /\ scrollOffsets' = LiveScroll
  /\ UNCHANGED <<comments, activeCommentId, isVisible, isCreatingComment,
                 newCommentPosition, isSidebarOpen, nextId, lastSaved, showPins,
                 draggingCommentId, recentlyDraggedCommentIds, isScoped,
                 winScroll, contScroll, now, clickStartPos, lastDragUpdate,
                 isDragging, live, gestures, ticks>>
  /\ ended' = {}
  /\ UNCHANGED <<filterVars, coordVars, selVars, isNavigationMode>>

(***************************************************************************)
(* Overlay mode: useComments state transitions                             *)
(***************************************************************************)
\* the [isVisible] effect of the layer: pins hide on every change of isVisible
ShowPinsOnVisibility(visible) == IF visible # isVisible THEN FALSE ELSE showPins

\* the 500 ms timer of the [isVisible] effect
ShowPinsTimer ==
  /\ isVisible /\ ~showPins
  /\ showPins' = TRUE
  /\ UNCHANGED <<comments, activeCommentId, isVisible, isCreatingComment,
                 newCommentPosition, isSidebarOpen, nextId, lastSaved,
                 scrollOffsets, draggingCommentId, recentlyDraggedCommentIds,
                 isScoped, winScroll, contScroll, now, clickStartPos,
                 lastDragUpdate, isDragging, live, gestures, ticks>>
  /\ ended' = {}
  /\ UNCHANGED <<filterVars, coordVars, selVars, isNavigationMode>>

\* a toggle that looks at the overlay alone, not at the sidebar
toggleVisibilityIgnoringSidebar(skipSidebar) ==
  /\ isVisible' = ~isVisible
  /\ isSidebarOpen' = IF isVisible THEN FALSE
                      ELSE (IF skipSidebar THEN isSidebarOpen ELSE TRUE)
  /\ showPins' = ShowPinsOnVisibility(~isVisible)
  /\ activeCommentId' = NoId
  /\ isCreatingComment' = FALSE
  /\ newCommentPosition' = Null
  /\ UNCHANGED <<comments, nextId, lastSaved, scrollOffsets, draggingCommentId,
                 recentlyDraggedCommentIds, isScoped, winScroll, contScroll,
                 now, clickStartPos, lastDragUpdate, isDragging, live,
                 gestures, ticks>>
  /\ ended' = {}
  /\ UNCHANGED <<filterVars, coordVars, selVars, isNavigationMode>>

\* toggleVisibility(skipSidebar): shortcut key, floating button, TOGGLE_VISIBLE
toggleVisibility(skipSidebar) ==
  /\ LET shouldClose == isVisible \/ isSidebarOpen
     IN /\ isVisible' = ~shouldClose
        /\ isSidebarOpen' = IF shouldClose THEN FALSE
                            ELSE (IF skipSidebar THEN isSidebarOpen ELSE TRUE)
        /\ showPins' = ShowPinsOnVisibility(~shouldClose)
  /\ activeCommentId' = NoId
  /\ isCreatingComment' = FALSE
  /\ newCommentPosition' = Null
  /\ UNCHANGED <<comments, nextId, lastSaved, scrollOffsets, draggingCommentId,
                 recentlyDraggedCommentIds, isScoped, winScroll, contScroll,
                 now, clickStartPos, lastDragUpdate, isDragging, live,
                 gestures, ticks>>
  /\ ended' = {}
  /\ UNCHANGED <<filterVars, coordVars, selVars, isNavigationMode>>

\* startCreatingComment(position)
startCreatingComment(pos) ==
  /\ isVisible' = TRUE
  /\ isCreatingComment' = TRUE
  /\ newCommentPosition' = Some(pos)
  /\ activeCommentId' = NoId
  /\ showPins' = ShowPinsOnVisibility(TRUE)
  /\ UNCHANGED <<comments, isSidebarOpen, nextId, lastSaved, scrollOffsets,
                 draggingCommentId, recentlyDraggedCommentIds, isScoped,
                 winScroll, contScroll, now, clickStartPos, lastDragUpdate,
                 isDragging, live, gestures, ticks>>
  /\ ended' = {}
  /\ UNCHANGED <<filterVars, coordVars, selVars, isNavigationMode>>

\* onDocClick: a click on the host page at viewport point p.  A click follows
\* its mouseup, which every live session's document listener has handled.
DocClick(p) ==
  /\ live = <<>>
  /\ isVisible /\ ~isCreatingComment /\ activeCommentId = NoId
  /\ ~isNavigationMode
  /\ startCreatingComment(FPt(DocFromClick(p, Frame)))

\* handleWidgetEvent START_COMMENT with a position (public API startComment)
ApiStartComment(pos) == startCreatingComment(pos)

\* cancelCreatingComment: the popup's cancel
cancelCreatingComment ==
  /\ live = <<>>
  /\ isVisible /\ isCreatingComment /\ newCommentPosition # Null
  /\ isCreatingComment' = FALSE
  /\ newCommentPosition' = Null
  /\ UNCHANGED <<comments, activeCommentId, isVisible, isSidebarOpen, nextId,
                 lastSaved, showPins, scrollOffsets, draggingCommentId,
                 recentlyDraggedCommentIds, isScoped, winScroll, contScroll,
                 now, clickStartPos, lastDragUpdate, isDragging, live,
                 gestures, ticks>>
  /\ ended' = {}
  /\ UNCHANGED <<filterVars, coordVars, selVars, isNavigationMode>>

\* the comment createComment builds from newCommentPosition
NewComment(pos, sel) ==
  [id |-> nextId, x |-> pos.x, y |-> pos.y, selector |-> sel,
   resolved |-> FALSE, replies |-> 0]

\* createComment: the popup's submit; sel is what the element picker produced
createComment(sel) ==
  /\ live = <<>>
  /\ isVisible /\ isCreatingComment /\ newCommentPosition # Null
  /\ Len(comments) < MaxComments
  /\ LET updated == Append(comments, NewComment(newCommentPosition[1], sel))
     IN /\ comments' = updated
        /\ lastSaved' = Some(updated)
  /\ activeCommentId' = nextId
  /\ nextId' = nextId + 1
  /\ isCreatingComment' = FALSE
  /\ newCommentPosition' = Null
  /\ UNCHANGED <<isVisible, isSidebarOpen, showPins, scrollOffsets,
                 draggingCommentId, recentlyDraggedCommentIds, isScoped,
                 winScroll, contScroll, now, clickStartPos, lastDragUpdate,
                 isDragging, live, gestures, ticks>>
  /\ ended' = {}
  /\ UNCHANGED <<filterVars, coordVars, selVars, isNavigationMode>>

\* the removal timers started by a drop
RecentlyDraggedExpire(id) ==
  /\ id \in recentlyDraggedCommentIds
  /\ recentlyDraggedCommentIds' = recentlyDraggedCommentIds \ {id}
  /\ UNCHANGED <<comments, activeCommentId, isVisible, isCreatingComment,
                 newCommentPosition, isSidebarOpen, nextId, lastSaved, showPins,
                 scrollOffsets, draggingCommentId, isScoped, winScroll,
                 contScroll, now, clickStartPos, lastDragUpdate, isDragging,
                 live, gestures, ticks>>
  /\ ended' = {}
  /\ UNCHANGED <<filterVars, coordVars, selVars, isNavigationMode>>

Init ==
  /\ comments = <<>> /\ activeCommentId = NoId /\ isVisible = FALSE
  /\ isCreatingComment = FALSE /\ newCommentPosition = Null
  /\ isSidebarOpen = FALSE /\ nextId = 1 /\ lastSaved = Null
  /\ showPins = FALSE /\ scrollOffsets = Pt(0, 0) /\ draggingCommentId = NoId
  /\ recentlyDraggedCommentIds = {} /\ isScoped \in BOOLEAN
  /\ winScroll = Pt(0, 0) /\ contScroll = Pt(0, 0) /\ now = Epoch
  /\ clickStartPos = [i \in Ids |-> Null] /\ lastDragUpdate = [i \in Ids |-> 0]
  /\ isDragging = [i \in Ids |-> FALSE] /\ live = <<>> /\ ended = {}
  /\ gestures = 0 /\ ticks = 0
  /\ isNavigationMode = FALSE /\ history = <<>> /\ timers = <<>>
  /\ saves = <<>> /\ storage = Null /\ errors = 0 /\ uncaught = FALSE
  /\ load = LoadSettled /\ hl = HighlightIdle /\ grace = GraceIdle
  /\ FilterIdle /\ CoordIdle /\ SelIdle

Next ==
  \/ \E i \in 1..MaxComments, p \in DownPts : PointerDown(i, p) /\ UNCHANGED <<history, timers, storeVars>>
  \/ \E p \in ClientPts : PointerMove(p) /\ UNCHANGED <<history, timers, storeVars>>
  \/ \E p \in ClientPts, sel \in Selectors \cup {NoSel} : PointerUp(p, sel) /\ UNCHANGED <<history, timers, storeVars>>
  \/ \E k \in 1..MaxLive : SafetyTimeout(k) /\ UNCHANGED <<history, timers, storeVars>>
  \/ \E d \in TickSteps : Tick(d) /\ UNCHANGED <<history, timers, storeVars>>
  \/ \E v \in ScrollVals : ScrollWindow(v) /\ UNCHANGED <<history, timers, storeVars>>
  \/ \E v \in ScrollVals : ScrollContainer(v) /\ UNCHANGED <<history, timers, storeVars>>
  \/ measureContainer /\ UNCHANGED <<history, timers, storeVars>>
  \/ ShowPinsTimer /\ UNCHANGED <<history, timers, storeVars>>
  \/ \E skip \in BOOLEAN : toggleVisibility(skip) /\ UNCHANGED <<history, timers, storeVars>>
  \/ \E p \in ClickPts : DocClick(p) /\ UNCHANGED <<history, timers, storeVars>>
  \/ \E pos \in ApiPositions : ApiStartComment(pos) /\ UNCHANGED <<history, timers, storeVars>>
  \/ cancelCreatingComment /\ UNCHANGED <<history, timers, storeVars>>
  \/ \E sel \in Selectors \cup {NoSel} : createComment(sel) /\ UNCHANGED <<history, timers, storeVars>>
  \/ \E id \in Ids : RecentlyDraggedExpire(id) /\ UNCHANGED <<history, timers, storeVars>>

Spec == Init /\ [][Next]_vars


(***************************************************************************)
(* SpecMode: the overlay's mode under the events that change it: toggle,   *)
(* show/hide, background and pin clicks, the popup's submit and cancel,    *)
(* Escape and the navigation modifier.  No gesture session is live; each   *)
(* event is written to `history` with the mode it found.                   *)
(***************************************************************************)
MaxHistory == 2

\* the state of useComments and CommentLayer without the navigation flag
stateVars == <<comments, activeCommentId, isVisible, isCreatingComment,
               newCommentPosition, isSidebarOpen, nextId, lastSaved, showPins,
               scrollOffsets, draggingCommentId, recentlyDraggedCommentIds,
               isScoped, winScroll, contScroll, now, clickStartPos,
               lastDragUpdate, isDragging, live, ended, gestures, ticks>>

\* a handler that returns without a state update
NoUpdate == UNCHANGED <<stateVars, isNavigationMode, filterVars, coordVars, selVars>>

\* setVisibility(visible): SET_VISIBLE, the API's show() and hide()
setVisibility(visible) ==
  /\ isVisible' = visible
  /\ activeCommentId' = IF visible THEN activeCommentId ELSE NoId
  /\ isCreatingComment' = FALSE
  /\ newCommentPosition' = Null
  /\ showPins' = ShowPinsOnVisibility(visible)
  /\ UNCHANGED <<comments, isSidebarOpen, nextId, lastSaved, scrollOffsets,
                 draggingCommentId, recentlyDraggedCommentIds, isScoped,
                 winScroll, contScroll, now, clickStartPos, lastDragUpdate,
                 isDragging, live, gestures, ticks>>
  /\ ended' = {}
  /\ UNCHANGED <<filterVars, coordVars, selVars, isNavigationMode>>

\* setActiveComment(commentId)
setActiveComment(id) ==
  /\ activeCommentId' = id
  /\ UNCHANGED <<comments, isVisible, isCreatingComment, newCommentPosition,
                 isSidebarOpen, nextId, lastSaved, showPins, scrollOffsets,
                 draggingCommentId, recentlyDraggedCommentIds, isScoped,
                 winScroll, contScroll, now, clickStartPos, lastDragUpdate,
                 isDragging, live, gestures, ticks>>
  /\ ended' = {}
  /\ UNCHANGED <<filterVars, coordVars, selVars, isNavigationMode>>

\* an onDocClick that does not look at the navigation flag
onDocClickIgnoringNavigation(p, inWidget) ==
  IF ~isVisible \/ isCreatingComment \/ activeCommentId # NoId
  THEN NoUpdate
  ELSE IF inWidget THEN NoUpdate
  ELSE startCreatingComment(FPt(DocFromClick(p, Frame)))

\* onDocClick, the capture-phase click listener of the document: the click is
\* at viewport point p; inWidget says that e.target lies in the widget's root
\* (or in the host's config panel)
onDocClick(p, inWidget) ==
  IF ~isVisible \/ isCreatingComment \/ activeCommentId # NoId \/ isNavigationMode
  THEN NoUpdate
  ELSE IF inWidget THEN NoUpdate
  ELSE startCreatingComment(FPt(DocFromClick(p, Frame)))

\* the onClick the layer gives to the pin of comment i
PinOnClick(i) ==
  /\ i \in DOMAIN comments
  /\ PinMounted(comments[i])
  /\ IF activeCommentId = comments[i].id
     THEN setActiveComment(NoId)
     ELSE setActiveComment(comments[i].id)

\* a handleEscape that closes everything at once
handleEscapeCloseAll == toggleVisibility(FALSE)

\* handleEscape
handleEscape ==
  IF activeCommentId # NoId THEN setActiveComment(NoId)
  ELSE IF isCreatingComment THEN cancelCreatingComment
  ELSE toggleVisibility(FALSE)

\* useKeyboard: Mousetrap's escape binding
onEscapeKey == IF isVisible THEN handleEscape ELSE NoUpdate

\* the navigation flag's handlers: keydown with the modifier state of the
\* event, keyup likewise, blur of the window
handleKeyDown(modifier) ==
  /\ isNavigationMode' = IF modifier /\ isVisible THEN TRUE ELSE isNavigationMode
  /\ UNCHANGED <<stateVars, filterVars, coordVars, selVars>>

\* a keyup handler with the test on the modifiers negated
handleKeyUpWhileHeld(modifier) ==
  /\ isNavigationMode' = IF modifier THEN FALSE ELSE isNavigationMode
  /\ UNCHANGED <<stateVars, filterVars, coordVars, selVars>>

handleKeyUp(modifier) ==
  /\ isNavigationMode' = IF ~modifier THEN FALSE ELSE isNavigationMode
  /\ UNCHANGED <<stateVars, filterVars, coordVars, selVars>>

handleBlur ==
  /\ isNavigationMode' = FALSE
  /\ UNCHANGED <<stateVars, filterVars, coordVars, selVars>>

\* the mode an event finds
ModeSnapshot ==
  [isVisible |-> isVisible, activeCommentId |-> activeCommentId,
   isCreatingComment |-> isCreatingComment,
   newCommentPosition |-> newCommentPosition, isSidebarOpen |-> isSidebarOpen,
   isNavigationMode |-> isNavigationMode, comments |-> comments,
   lastSaved |-> lastSaved]

\* the event joins the history, which keeps the latest MaxHistory events
Log(ev, arg) ==
  LET h == Append(history, [ev |-> ev, arg |-> arg, pre |-> ModeSnapshot])
  IN /\ history' = IF Len(h) > MaxHistory THEN Tail(h) ELSE h
     /\ UNCHANGED <<timers, storeVars>>

InitMode ==
  /\ comments = <<>> /\ activeCommentId = NoId /\ isVisible = FALSE
  /\ isCreatingComment = FALSE /\ newCommentPosition = Null
  /\ isSidebarOpen = FALSE /\ nextId = 1 /\ lastSaved = Null
  /\ showPins = FALSE /\ scrollOffsets = Pt(0, 0) /\ draggingCommentId = NoId
  /\ recentlyDraggedCommentIds = {} /\ isScoped \in BOOLEAN
  /\ winScroll = Pt(0, 0) /\ contScroll = Pt(0, 0) /\ now = Epoch
  /\ clickStartPos = [i \in Ids |-> Null] /\ lastDragUpdate = [i \in Ids |-> 0]
  /\ isDragging = [i \in Ids |-> FALSE] /\ live = <<>> /\ ended = {}
  /\ gestures = 0 /\ ticks = 0
  /\ isNavigationMode = FALSE /\ history = <<>> /\ timers = <<>>
  /\ saves = <<>> /\ storage = Null /\ errors = 0 /\ uncaught = FALSE
  /\ load = LoadSettled /\ hl = HighlightIdle /\ grace = GraceIdle
  /\ FilterIdle /\ CoordIdle /\ SelIdle

NextMode ==
  \/ \E skip \in BOOLEAN : toggleVisibility(skip) /\ Log("toggle", skip)
  \/ \E v \in BOOLEAN : setVisibility(v) /\ Log("setVisibility", v)
  \/ \E p \in ClickPts, w \in BOOLEAN : onDocClick(p, w) /\ Log("click", w)
  \/ \E pos \in ApiPositions : ApiStartComment(pos) /\ Log("startComment", FALSE)
  \/ \E i \in 1..MaxComments : PinOnClick(i) /\ Log("pinClick", FALSE)
  \/ cancelCreatingComment /\ Log("cancel", FALSE)
  \/ \E sel \in Selectors \cup {NoSel} : createComment(sel) /\ Log("submit", FALSE)
  \/ onEscapeKey /\ Log("escape", FALSE)
  \/ \E m \in BOOLEAN : handleKeyDown(m) /\ Log("keydown", m)
  \/ \E m \in BOOLEAN : handleKeyUp(m) /\ Log("keyup", m)
  \/ handleBlur /\ Log("blur", FALSE)
  \/ ShowPinsTimer /\ UNCHANGED <<history, timers, storeVars>>

SpecMode == InitMode /\ [][NextMode]_vars


(***************************************************************************)
(* SpecFilter: the visibility filter applied to one annotation in one      *)
(* frame.  fin is the input, fout the viewport position the filter         *)
(* computed and its verdict.                                               *)
(***************************************************************************)
FilterXs == {NaN, PInf, NInf, Fin(-201), Fin(150), Fin(750), Fin(850), Fin(100100)}
FilterYs == {NaN, PInf, Fin(250), Fin(450), Fin(5000)}
FilterContainerOffsets == {Pt(0, 0), Pt(100, 200)}
FilterScrolls == {Pt(0, 0), Pt(0, 20)}
FilterLeftWidths == {0, 288}

FilterInputs ==
  [x : FilterXs, y : FilterYs, scoped : BOOLEAN, sidebar : BOOLEAN,
   leftW : FilterLeftWidths, contDocOff : FilterContainerOffsets,
   contScroll : FilterScrolls, winScroll : FilterScrolls,
   dragging : {NoId, 1}, recent : {{}, {1}}, active : {NoId, 1}]

\* the annotation of a filter input
FilterComment(i) == [id |-> 1, x |-> i.x, y |-> i.y]

\* what the filter reads from the DOM and from the layer's state for input i:
\* the container's client rect is its document offset less the window scroll
FilterEnv(i) ==
  LET rect == Pt(i.contDocOff.x - i.winScroll.x, i.contDocOff.y - i.winScroll.y)
  IN [scoped |-> i.scoped, sidebar |-> i.sidebar, leftW |-> i.leftW,
      contOff |-> Pt(rect.x + i.winScroll.x, rect.y + i.winScroll.y),
      contScroll |-> i.contScroll, winScroll |-> i.winScroll,
      contW |-> ViewportSize.x, contH |-> ViewportSize.y,
      dimW |-> ViewportSize.x, dimH |-> ViewportSize.y,
      dragging |-> i.dragging, recent |-> i.recent, active |-> i.active]

InitFilter ==
  /\ fin \in {Some(i) : i \in FilterInputs}
  /\ fout = Null
  /\ OverlayIdle /\ CoordIdle /\ SelIdle

\* one evaluation of the .map().filter() chain on the input
ApplyFilter ==
  /\ fin # Null /\ fout = Null
  /\ LET c == FilterComment(fin[1])
         env == FilterEnv(fin[1])
     IN fout' = Some([viewport |-> FilterViewport(c, env),
                      visible |-> FilterVisible(c, env)])
  /\ UNCHANGED <<fin, overlayVars, coordVars, selVars>>

NextFilter == ApplyFilter

SpecFilter == InitFilter /\ [][NextFilter]_vars

(***************************************************************************)
(* SpecCoord: a background click converted to document space and back to   *)
(* viewport space by the drag hit-test and by createComment, in one frame. *)
(***************************************************************************)
CoordPoints == {Pt(0, 0), Pt(50, 50), Pt(300, 300), Pt(-5, 700)}
CoordWinScrolls == {Pt(0, 0), Pt(0, 20), Pt(15, 300)}
CoordContainerOffsets == {Pt(0, 0), Pt(100, 200)}
CoordContScrolls == {Pt(0, 0), Pt(0, 20), Pt(7, 130)}

CoordInputs ==
  [p : CoordPoints, scoped : BOOLEAN, winScroll : CoordWinScrolls,
   contDocOff : CoordContainerOffsets, contScroll : CoordContScrolls]

\* the frame both handlers read from the DOM for input i
CoordFrame(i) ==
  [scoped |-> i.scoped, winScroll |-> i.winScroll,
   contRect |-> Pt(i.contDocOff.x - i.winScroll.x, i.contDocOff.y - i.winScroll.y),
   contScroll |-> i.contScroll]

InitCoord ==
  /\ cin \in {Some(i) : i \in CoordInputs}
  /\ cout = Null
  /\ OverlayIdle /\ FilterIdle /\ SelIdle

\* onDocClick computes the document position of the click
ClickToDocument ==
  /\ cin # Null /\ cout = Null
  /\ cout' = Some([doc |-> FPt(DocFromClick(cin[1].p, CoordFrame(cin[1]))),
                   back |-> Null, create |-> Null])
  /\ UNCHANGED <<cin, overlayVars, filterVars, selVars>>

\* the popup is submitted in the same frame: createComment converts the stored
\* document position to the viewport point of its hit-test
CreateToHitTest ==
  /\ cout # Null /\ cout[1].create = Null
  /\ cout' = Some([cout[1] EXCEPT
                     !.create = Some(createCommentViewport(cout[1].doc,
                                                           CoordFrame(cin[1])))])
  /\ UNCHANGED <<cin, overlayVars, filterVars, selVars>>

\* the hit-test of onDrag converts the document position to a viewport point
DocumentToHitTest ==
  /\ cout # Null /\ cout[1].back = Null
  /\ cout' = Some([cout[1] EXCEPT
                     !.back = Some(HitTestViewport(cout[1].doc, CoordFrame(cin[1])))])
  /\ UNCHANGED <<cin, overlayVars, filterVars, selVars>>

NextCoord == ClickToDocument \/ DocumentToHitTest \/ CreateToHitTest

SpecCoord == InitCoord /\ [][NextCoord]_vars


(***************************************************************************)
(* SpecSel: generateSelector on an element of a bounded DOM tree, then     *)
(* the resolution of that selector by the pin's hover handler.             *)
(* A tree is a sequence of element nodes in document order below body      *)
(* (node 0); node n is [parent, tag, id, cls], "" meaning no id / no class.*)
(***************************************************************************)
MaxNodes == 3
MaxPathDepth == 5
Body == 0
Tags == {"div", "p"}
DomIds == {"", "hero", "nav.main"}
Classes == {"", "card", "w-1/2"}
\* ids that read as id-plus-class when written after "#": "#nav.main" selects
\* an element with id "nav" and class "main", which no tree here contains
DottedIds == {"nav.main"}
\* class names that are not CSS identifiers: ".w-1/2" is a syntax error
InvalidClassTokens == {"w-1/2"}

RECURSIVE AncestorsOrSelf(_, _)
AncestorsOrSelf(d, n) ==
  IF n = Body THEN {Body} ELSE {n} \cup AncestorsOrSelf(d, d[n].parent)

\* node numbers are document order, ids are unique
WellFormedDom(d) ==
  /\ \A n \in DOMAIN d : d[n].parent < n
  /\ \A n \in DOMAIN d : n > 1 => d[n].parent \in AncestorsOrSelf(d, n - 1)
  /\ \A m, n \in DOMAIN d : (m # n /\ d[m].id # "") => d[m].id # d[n].id

\* the well-formed trees of k nodes, each a tree of k - 1 nodes plus a last node
RECURSIVE DomsOfSize(_)
DomsOfSize(k) ==
  IF k = 0 THEN {<<>>}
  ELSE {d \in {Append(t, r) : t \in DomsOfSize(k - 1),
                              r \in [parent : 0..(k - 1), tag : Tags,
                                     id : DomIds, cls : Classes]} :
          WellFormedDom(d)}

Doms == UNION {DomsOfSize(k) : k \in 1..MaxNodes}

\* parent.children filtered to the tag of e
SameTagSiblings(d, e) ==
  {m \in DOMAIN d : d[m].parent = d[e].parent /\ d[m].tag = d[e].tag}

\* siblings.indexOf(e) + 1, which is also what :nth-of-type counts
NthOfType(d, e) == Cardinality({m \in SameTagSiblings(d, e) : m <= e})

\* one compound selector of the path: tag, #id, .class, :nth-of-type(n)
\* ("" / 0 when the part is absent)
PathSegment(d, cur) ==
  [tag |-> d[cur].tag, id |-> "", cls |-> d[cur].cls,
   nth |-> IF Cardinality(SameTagSiblings(d, cur)) > 1 THEN NthOfType(d, cur) ELSE 0]

\* a walk without the depth limit
RECURSIVE BuildPathNoLimit(_, _, _)
BuildPathNoLimit(d, cur, path) ==
  IF cur = Body THEN path
  ELSE IF d[cur].id # ""
    THEN <<[tag |-> d[cur].tag, id |-> d[cur].id, cls |-> "", nth |-> 0]>> \o path
  ELSE BuildPathNoLimit(d, d[cur].parent, <<PathSegment(d, cur)>> \o path)

\* the while loop of generateSelector
RECURSIVE BuildPath(_, _, _)
BuildPath(d, cur, path) ==
  IF cur = Body THEN path
  ELSE IF d[cur].id # ""
    THEN <<[tag |-> d[cur].tag, id |-> d[cur].id, cls |-> "", nth |-> 0]>> \o path
  ELSE LET longer == <<PathSegment(d, cur)>> \o path
       IN IF Len(longer) >= MaxPathDepth THEN longer
          ELSE BuildPath(d, d[cur].parent, longer)

\* a generator that always builds the path, also for an element with an id
generateSelectorPathOnly(d, e) == BuildPath(d, e, <<>>)

\* generateSelector (useComments.ts, used when a comment is created):
\* segments joined by " > "
generateSelector(d, e) ==
  IF d[e].id # ""
  THEN <<[tag |-> "", id |-> d[e].id, cls |-> "", nth |-> 0]>>
  ELSE BuildPath(d, e, <<>>)

\* generateSelectorForElement (CommentLayer.tsx, used when a pin is dropped)
generateSelectorForElement(d, e) ==
  IF d[e].id # ""
  THEN <<[tag |-> "", id |-> d[e].id, cls |-> "", nth |-> 0]>>
  ELSE BuildPath(d, e, <<>>)

\* the text of one compound selector: tag, #id, .class, :nth-of-type(n)
SegmentText(g) ==
  g.tag \o (IF g.id = "" THEN "" ELSE "#" \o g.id)
        \o (IF g.cls = "" THEN "" ELSE "." \o g.cls)
        \o (IF g.nth = 0 THEN "" ELSE ":nth-of-type(" \o ToString(g.nth) \o ")")

\* path.join(' > '): the string the generators return
RECURSIVE SelectorText(_)
SelectorText(sel) ==
  IF Len(sel) = 0 THEN ""
  ELSE IF Len(sel) = 1 THEN SegmentText(sel[1])
  ELSE SegmentText(sel[1]) \o " > " \o SelectorText(Tail(sel))

\* element n matches the compound selector g
MatchesCompound(d, n, g) ==
  /\ n # Body
  /\ g.tag = "" \/ d[n].tag = g.tag
  /\ g.id = "" \/ (g.id \notin DottedIds /\ d[n].id = g.id)
  /\ g.cls = "" \/ d[n].cls = g.cls
  /\ g.nth = 0 \/ NthOfType(d, n) = g.nth

\* element n matches the child-combinator chain sel
RECURSIVE Matches(_, _, _)
Matches(d, n, sel) ==
  /\ MatchesCompound(d, n, sel[Len(sel)])
  /\ Len(sel) = 1 \/ Matches(d, d[n].parent, SubSeq(sel, 1, Len(sel) - 1))

Least(S) == CHOOSE n \in S : \A m \in S : n <= m

\* document.querySelector: the first match in document order, Body (0) for null
querySelector(d, sel) ==
  LET ms == {n \in DOMAIN d : Matches(d, n, sel)}
  IN IF ms = {} THEN Body ELSE Least(ms)

\* document.getElementById
getElementById(d, id) ==
  LET ms == {n \in DOMAIN d : d[n].id = id}
  IN IF ms = {} THEN Body ELSE Least(ms)

\* handleMouseEnter: exact match, then the last segment, then the id
ResolveSelector(d, sel) ==
  LET exact == querySelector(d, sel)
      partial == IF exact = Body /\ Len(sel) > 1
                 THEN querySelector(d, <<sel[Len(sel)]>>) ELSE exact
      startsWithHash == sel[1].tag = "" /\ sel[1].id # ""
  IN IF partial = Body /\ startsWithHash
     THEN getElementById(d, sel[1].id) ELSE partial

\* document.querySelector(sel) raises a SyntaxError
querySelectorThrows(sel) ==
  \E i \in DOMAIN sel : sel[i].cls \in InvalidClassTokens

\* the try block of handleMouseEnter: raised when a query raises, else the
\* element the fallback chain found (Body for none)
TryResolve(d, sel) ==
  IF querySelectorThrows(sel)
  THEN [raised |-> TRUE, el |-> Body]
  ELSE [raised |-> FALSE, el |-> ResolveSelector(d, sel)]

\* a handler without the catch clause
handleMouseEnterNoCatch(d, sel) ==
  [thrown |-> TryResolve(d, sel).raised, el |-> TryResolve(d, sel).el]

\* handleMouseEnter: try { ... } catch (e) { } -- what reaches the caller and
\* the element that gets the highlight
handleMouseEnter(d, sel) ==
  IF TryResolve(d, sel).raised
  THEN [thrown |-> FALSE, el |-> Body]
  ELSE [thrown |-> FALSE, el |-> TryResolve(d, sel).el]

InitSel ==
  /\ dom \in Doms
  /\ target \in DOMAIN dom
  /\ selector = Null /\ resolved = Null /\ thrown = FALSE
  /\ stack = <<>> /\ picked = Null
  /\ OverlayIdle /\ FilterIdle /\ CoordIdle

\* a comment is anchored to the target element
GenerateSelector ==
  /\ dom # <<>> /\ selector = Null
  /\ selector' = Some(generateSelector(dom, target))
  /\ UNCHANGED <<dom, target, resolved, thrown, stack, picked, overlayVars,
                 filterVars, coordVars>>

\* the pointer enters the pin: the stored selector is resolved
HoverResolve ==
  /\ selector # Null /\ resolved = Null
  /\ resolved' = Some(handleMouseEnter(dom, selector[1]).el)
  /\ thrown' = handleMouseEnter(dom, selector[1]).thrown
  /\ UNCHANGED <<dom, target, selector, stack, picked, overlayVars, filterVars,
                 coordVars>>

NextSel == GenerateSelector \/ HoverResolve

SpecSel == InitSel /\ [][NextSel]_vars

(***************************************************************************)
(* SpecPath: the two selector generators on trees deep enough for the      *)
(* depth limit: a chain of nested div elements, each the only child of the *)
(* one before, and one more element placed last under any of them.         *)
(***************************************************************************)
MaxChain == 6
ChainIds == {"", "hero"}

RECURSIVE ChainsOfDepth(_)
ChainsOfDepth(k) ==
  IF k = 0 THEN {<<>>}
  ELSE {d \in {Append(t, [parent |-> k - 1, tag |-> "div", id |-> i, cls |-> ""]) :
                  t \in ChainsOfDepth(k - 1), i \in ChainIds} :
          WellFormedDom(d)}

\* a chain of k elements and a last element under body or under one of them
DeepDomsOf(k) ==
  UNION {{Append(t, [parent |-> q, tag |-> g, id |-> "", cls |-> c]) :
            t \in ChainsOfDepth(k), g \in Tags, c \in {"", "card"}}
         : q \in 0..k}

DeepDoms == UNION {DeepDomsOf(k) : k \in 1..MaxChain}

InitPath ==
  /\ dom \in DeepDoms
  /\ target \in DOMAIN dom
  /\ selector = Null /\ resolved = Null /\ thrown = FALSE
  /\ stack = <<>> /\ picked = Null
  /\ OverlayIdle /\ FilterIdle /\ CoordIdle

\* a dropped pin is anchored to the target element
DropSelector ==
  /\ dom # <<>> /\ selector = Null
  /\ selector' = Some(generateSelectorForElement(dom, target))
  /\ UNCHANGED <<dom, target, resolved, thrown, stack, picked, overlayVars,
                 filterVars, coordVars>>

NextPath == GenerateSelector \/ DropSelector

SpecPath == InitPath /\ [][NextPath]_vars

(***************************************************************************)
(* SpecResolve: a selector stored with a comment earlier, resolved against *)
(* the tree the page has when the pointer enters the pin.                  *)
(***************************************************************************)
MaxStoredNodes == 2

\* what generateSelector can have stored: its results on the smaller trees
SmallDoms == UNION {DomsOfSize(k) : k \in 1..MaxStoredNodes}

StoredSelectors ==
  {generateSelector(de[1], de[2]) :
     de \in {de \in SmallDoms \X (1..MaxStoredNodes) : de[2] \in DOMAIN de[1]}}

InitResolve ==
  /\ dom \in SmallDoms
  /\ target = 0
  /\ selector \in {Some(sel) : sel \in StoredSelectors}
  /\ resolved = Null /\ thrown = FALSE
  /\ stack = <<>> /\ picked = Null
  /\ OverlayIdle /\ FilterIdle /\ CoordIdle

NextResolve == HoverResolve

SpecResolve == InitResolve /\ [][NextResolve]_vars



(***************************************************************************)
(* SpecValve: the gesture session of one pin with the 5 s timer that       *)
(* handleMouseDown sets and never clears.  The timer's callback runs       *)
(* cleanup() unless the session's cleanupCalled flag is set.               *)
(***************************************************************************)
ValveSteps == {100, 2500, 5000}

ValveComment ==
  [id |-> 1, x |-> Fin(300), y |-> Fin(300), selector |-> NoSel,
   resolved |-> FALSE, replies |-> 0]

InitValve ==
  /\ comments = <<ValveComment>> /\ activeCommentId = NoId /\ isVisible = TRUE
  /\ isCreatingComment = FALSE /\ newCommentPosition = Null
  /\ isSidebarOpen = FALSE /\ nextId = 2 /\ lastSaved = Null
  /\ showPins = TRUE /\ scrollOffsets = Pt(0, 0) /\ draggingCommentId = NoId
  /\ recentlyDraggedCommentIds = {} /\ isScoped = FALSE
  /\ winScroll = Pt(0, 0) /\ contScroll = Pt(0, 0) /\ now = Epoch
  /\ clickStartPos = [i \in Ids |-> Null] /\ lastDragUpdate = [i \in Ids |-> 0]
  /\ isDragging = [i \in Ids |-> FALSE] /\ live = <<>> /\ ended = {}
  /\ gestures = 0 /\ ticks = 0
  /\ isNavigationMode = FALSE /\ history = <<>> /\ timers = <<>>
  /\ saves = <<>> /\ storage = Null /\ errors = 0 /\ uncaught = FALSE
  /\ load = LoadSettled /\ hl = HighlightIdle /\ grace = GraceIdle
  /\ FilterIdle /\ CoordIdle /\ SelIdle

\* setTimeout(..., 5000) at the end of handleMouseDown
SetSafetyTimer(id) ==
  timers' = Append(timers, [id |-> id, start |-> now, cleanupCalled |-> FALSE])

\* cleanup() at the end of handleMouseUp sets the flag of every session the
\* event ends
MarkCleanupCalled ==
  timers' = [t \in DOMAIN timers |-> [timers[t] EXCEPT !.cleanupCalled = TRUE]]

WithoutTimer(t) ==
  [j \in 1..(Len(timers) - 1) |-> IF j < t THEN timers[j] ELSE timers[j + 1]]

\* the timer's callback: if (!cleanupCalled) cleanup()
SafetyTimer(t) ==
  /\ t \in DOMAIN timers
  /\ now - timers[t].start >= SafetyTimeoutMs
  /\ IF timers[t].cleanupCalled
     THEN NoUpdate
     ELSE \E k \in DOMAIN live :
            /\ live[k].id = timers[t].id /\ live[k].startTime = timers[t].start
            /\ SafetyTimeout(k)
  /\ timers' = WithoutTimer(t)
  /\ UNCHANGED <<history, storeVars>>

\* time passes while a timer is pending
ValveTick(d) ==
  /\ \E t \in DOMAIN timers : now - timers[t].start < SafetyTimeoutMs
  /\ now' = now + d
  /\ UNCHANGED <<comments, activeCommentId, isVisible, isCreatingComment,
                 newCommentPosition, isSidebarOpen, nextId, lastSaved, showPins,
                 scrollOffsets, draggingCommentId, recentlyDraggedCommentIds,
                 isScoped, winScroll, contScroll, clickStartPos, lastDragUpdate,
                 isDragging, live, gestures, ticks>>
  /\ ended' = {}
  /\ UNCHANGED <<filterVars, coordVars, selVars, isNavigationMode, history, timers,
                 storeVars>>

NextValve ==
  \/ \E i \in 1..MaxComments, p \in DownPts :
       PointerDown(i, p) /\ SetSafetyTimer(comments[i].id) /\ UNCHANGED <<history, storeVars>>
  \/ \E p \in ClientPts : PointerMove(p) /\ UNCHANGED <<history, timers, storeVars>>
  \/ \E p \in ClientPts, sel \in Selectors \cup {NoSel} :
       PointerUp(p, sel) /\ MarkCleanupCalled /\ UNCHANGED <<history, storeVars>>
  \/ \E t \in 1..MaxGestures : SafetyTimer(t)
  \/ \E d \in ValveSteps : ValveTick(d)

\* the event loop runs a due timer's callback, and time does not stop
ValveFairness ==
  /\ WF_vars(\E t \in 1..MaxGestures : SafetyTimer(t))
  /\ WF_vars(\E d \in ValveSteps : ValveTick(d))

SpecValve == InitValve /\ [][NextValve]_vars /\ ValveFairness

(***************************************************************************)
(* SpecPick: the element picker on the stack document.elementsFromPoint    *)
(* returns at the comment's point, as createComment uses it (inline copy   *)
(* in useComments.ts) and as the drop handler uses it (findLowLevelElement *)
(* in CommentLayer.tsx).  A stack entry is [node, widget, w, h]: a node of *)
(* the tree (Body, Html for the two roots), whether el.closest finds the   *)
(* widget root above it, and the size of its bounding rectangle.           *)
(***************************************************************************)
MaxPickNodes == 2
Html == 0 - 1
minElementSize == 50
minArea == 2000
\* tag names, written in lower case as the trees here write them
excludedTags == {"span", "strong", "em", "b", "i", "code", "label", "small",
                 "sub", "sup", "mark"}
containerTags == {"body", "html"}
preferredBlockTags == {"section", "article", "aside", "header", "footer",
                       "nav", "main", "div"}
interactiveTags == {"button", "a", "input", "textarea", "select"}
headingTags == {"h1", "h2", "h3", "h4", "h5", "h6", "p"}

PickTags == {"div", "span", "li"}
PickIds == {"", "hero"}
PickWidths == {10, 60, 900}
PickHeights == {10, 60, 600}

RECURSIVE PickDomsOfSize(_)
PickDomsOfSize(k) ==
  IF k = 0 THEN {<<>>}
  ELSE {d \in {Append(t, r) : t \in PickDomsOfSize(k - 1),
                              r \in [parent : 0..(k - 1), tag : PickTags,
                                     id : PickIds, cls : {""}]} :
          WellFormedDom(d)}

PickDoms == UNION {PickDomsOfSize(k) : k \in 1..MaxPickNodes}

\* el.tagName, el.id
ElTag(d, e) ==
  IF e.node = Html THEN "html" ELSE IF e.node = Body THEN "body" ELSE d[e.node].tag
ElId(d, e) == IF e.node \in {Html, Body} THEN "" ELSE d[e.node].id

\* el.closest('#comment-widget-root') || el.closest('[data-comment-widget]')
InWidget(e) == e.widget

\* el === document.body || el === document.documentElement
IsBodyOrHtml(e) == e.node \in {Body, Html}

\* window.innerWidth, window.innerHeight; the 0.9 factors are kept exact by
\* comparing ten times the size with nine times the viewport
viewportWidth == ViewportSize.x
viewportHeight == ViewportSize.y
maxContainerSizeTimes10 == 9 * Max(viewportWidth, viewportHeight)

\* the size test of the first and the third pass
IsMediumSized(e) ==
  /\ e.w >= minElementSize /\ e.h >= minElementSize
  /\ e.w * e.h >= minArea
  /\ 10 * e.w < 9 * viewportWidth /\ 10 * e.h < 9 * viewportHeight

\* first pass: an element with an id, medium-sized
FirstPass(d, e) ==
  /\ ~InWidget(e)
  /\ ~IsBodyOrHtml(e)
  /\ ElTag(d, e) \notin containerTags
  /\ ElTag(d, e) \notin excludedTags
  /\ ElId(d, e) # ""
  /\ IsMediumSized(e)

\* second pass: a block, interactive, heading or paragraph element that is
\* neither too small nor larger than maxContainerSize
SecondPass(d, e) ==
  /\ ~InWidget(e)
  /\ ~IsBodyOrHtml(e)
  /\ ElTag(d, e) \notin containerTags
  /\ ElTag(d, e) \notin excludedTags
  /\ ~(e.w < minElementSize \/ e.h < minElementSize \/ e.w * e.h < minArea)
  /\ ~(10 * e.w > maxContainerSizeTimes10 \/ 10 * e.h > maxContainerSizeTimes10)
  /\ ElTag(d, e) \in preferredBlockTags \cup interactiveTags \cup headingTags

\* a third pass that does not skip the widget's own elements
ThirdPassWidgetToo(d, e) ==
  /\ ~IsBodyOrHtml(e)
  /\ ElTag(d, e) \notin excludedTags
  /\ IsMediumSized(e)

\* a third pass that takes any element that is not oversized
ThirdPassAnySize(d, e) ==
  /\ ~InWidget(e)
  /\ ~IsBodyOrHtml(e)
  /\ ElTag(d, e) \notin excludedTags
  /\ 10 * e.w < 9 * viewportWidth /\ 10 * e.h < 9 * viewportHeight

\* third pass: any medium-sized element
ThirdPass(d, e) ==
  /\ ~InWidget(e)
  /\ ~IsBodyOrHtml(e)
  /\ ElTag(d, e) \notin excludedTags
  /\ IsMediumSized(e)

\* for (const el of elements) { ... return el }: the index of the first
\* element among those a pass accepts, 0 when it accepts none
FirstAccepted(hits) == IF hits = {} THEN 0 ELSE Least(hits)

FirstLoop(d, elements) ==
  FirstAccepted({i \in DOMAIN elements : FirstPass(d, elements[i])})
SecondLoop(d, elements) ==
  FirstAccepted({i \in DOMAIN elements : SecondPass(d, elements[i])})
ThirdLoop(d, elements) ==
  FirstAccepted({i \in DOMAIN elements : ThirdPass(d, elements[i])})

\* the three loops in order; 0 is null
ThreePasses(d, elements) ==
  IF FirstLoop(d, elements) # 0 THEN FirstLoop(d, elements)
  ELSE IF SecondLoop(d, elements) # 0 THEN SecondLoop(d, elements)
  ELSE ThirdLoop(d, elements)

\* findLowLevelElement (CommentLayer.tsx), used when a pin is dropped
findLowLevelElement(d, elements) == ThreePasses(d, elements)

\* targetElement of createComment (useComments.ts): the same three loops inline
targetElement(d, elements) == ThreePasses(d, elements)

\* selector of createComment: generateSelector(targetElement) or undefined
createCommentSelector(d, elements) ==
  IF targetElement(d, elements) = 0 THEN NoSel
  ELSE SelectorText(generateSelector(d, elements[targetElement(d, elements)].node))

\* newSelector of the drop handler
dropSelector(d, elements) ==
  IF findLowLevelElement(d, elements) = 0 THEN NoSel
  ELSE SelectorText(generateSelectorForElement(d,
                      elements[findLowLevelElement(d, elements)].node))

\* the stacks a point of tree d can have: tree nodes in paint order, each
\* painted by the page or by the widget, then body and html; or nothing
\* at all for a point outside the viewport
StackEntries(n) == [node : {n}, widget : BOOLEAN, w : PickWidths, h : PickHeights]
RootEntries ==
  <<[node |-> Body, widget |-> FALSE, w |-> viewportWidth, h |-> viewportHeight],
    [node |-> Html, widget |-> FALSE, w |-> viewportWidth, h |-> viewportHeight]>>
Stacks(d) ==
  {<<>>, RootEntries}
  \cup {<<e>> \o RootEntries : e \in UNION {StackEntries(n) : n \in DOMAIN d}}
  \cup {<<p[1], p[2]>> \o RootEntries :
          p \in {q \in (UNION {StackEntries(n) : n \in DOMAIN d})
                        \X (UNION {StackEntries(n) : n \in DOMAIN d}) :
                   q[1].node # q[2].node}}

PickPosition == FPt(Pt(300, 300))

InitPick ==
  /\ dom \in PickDoms
  /\ stack \in Stacks(dom)
  /\ picked = Null
  /\ target = 0 /\ selector = Null /\ resolved = Null /\ thrown = FALSE
  /\ comments = <<>> /\ activeCommentId = NoId /\ isVisible = TRUE
  /\ isCreatingComment = TRUE /\ newCommentPosition = Some(PickPosition)
  /\ isSidebarOpen = FALSE /\ nextId = 1 /\ lastSaved = Null
  /\ showPins = TRUE /\ scrollOffsets = Pt(0, 0) /\ draggingCommentId = NoId
  /\ recentlyDraggedCommentIds = {} /\ isScoped = FALSE
  /\ winScroll = Pt(0, 0) /\ contScroll = Pt(0, 0) /\ now = Epoch
  /\ clickStartPos = [i \in Ids |-> Null] /\ lastDragUpdate = [i \in Ids |-> 0]
  /\ isDragging = [i \in Ids |-> FALSE] /\ live = <<>> /\ ended = {}
  /\ gestures = 0 /\ ticks = 0
  /\ isNavigationMode = FALSE /\ history = <<>> /\ timers = <<>>
  /\ saves = <<>> /\ storage = Null /\ errors = 0 /\ uncaught = FALSE
  /\ load = LoadSettled /\ hl = HighlightIdle /\ grace = GraceIdle
  /\ FilterIdle /\ CoordIdle

\* the popup is submitted: createComment runs the picker on the stack
SubmitAtStack ==
  createComment(createCommentSelector(dom, stack)) /\ UNCHANGED <<history, timers, storeVars>>

\* a pin is dropped at the point: the drop handler runs findLowLevelElement
DropAtStack ==
  /\ picked = Null
  /\ picked' = Some(findLowLevelElement(dom, stack))
  /\ selector' = Some(dropSelector(dom, stack))
  /\ UNCHANGED <<dom, target, resolved, thrown, stack, overlayVars, filterVars,
                 coordVars>>

NextPick == SubmitAtStack \/ DropAtStack

SpecPick == InitPick /\ [][NextPick]_vars


(***************************************************************************)
(* SpecStore: the comment store of useComments with a storage adapter      *)
(* whose saveComments may resolve, reject or throw.  Every mutation sets   *)
(* the state and then calls saveComments without awaiting it.              *)
(***************************************************************************)
MaxSaves == 2
MaxErrors == 4
MaxReplies == 1
\* where the layer's drag handlers put a pin
StorePositions == {FPt(Pt(340, 290))}
\* what the adapter's saveComments does when called: it returns a promise
\* that settles later, or it throws before returning one
AdapterCalls == {"promise", "throws"}

\* a catch clause that lets the error escape to the caller
RethrowSaveError ==
  /\ uncaught' = TRUE
  /\ UNCHANGED errors

\* catch (error) { console.error('Failed to save comments:', error) }
CatchSaveError ==
  /\ errors' = errors + 1
  /\ UNCHANGED uncaught

\* saveComments(list) of useComments, called and not awaited: the adapter is
\* called inside the try block of the async function
saveComments(list, call) ==
  /\ Len(saves) < MaxSaves
  /\ errors < MaxErrors
  /\ IF call = "throws"
     THEN CatchSaveError /\ UNCHANGED saves
     ELSE saves' = Append(saves, list) /\ UNCHANGED <<errors, uncaught>>
  /\ UNCHANGED <<storage, load, hl, grace>>

\* the promise of the k-th pending adapter call settles
SaveSettles(k, fulfilled) ==
  /\ k \in DOMAIN saves
  /\ saves' = [j \in 1..(Len(saves) - 1) |-> IF j < k THEN saves[j] ELSE saves[j + 1]]
  /\ IF fulfilled
     THEN storage' = Some(saves[k]) /\ UNCHANGED <<errors, uncaught>>
     ELSE errors < MaxErrors /\ CatchSaveError /\ UNCHANGED storage
  /\ UNCHANGED <<stateVars, isNavigationMode, history, timers, filterVars,
                 coordVars, selVars, load, hl, grace>>

\* a store mutation that replaces the comment list: setState, then saveComments
SetComments(updated, active) ==
  /\ comments' = updated
  /\ lastSaved' = Some(updated)
  /\ activeCommentId' = active
  /\ ended' = {}
  /\ UNCHANGED <<isVisible, isCreatingComment, newCommentPosition, isSidebarOpen,
                 nextId, showPins, scrollOffsets, draggingCommentId,
                 recentlyDraggedCommentIds, isScoped, winScroll, contScroll,
                 now, clickStartPos, lastDragUpdate, isDragging, live,
                 gestures, ticks>>
  /\ UNCHANGED <<filterVars, coordVars, selVars, isNavigationMode, history, timers>>

\* addReply(commentId, text, author)
addReply(id) ==
  /\ \E i \in DOMAIN comments : comments[i].id = id /\ comments[i].replies < MaxReplies
  /\ SetComments([i \in DOMAIN comments |->
                    IF comments[i].id = id
                    THEN [comments[i] EXCEPT !.replies = @ + 1] ELSE comments[i]],
                 activeCommentId)

\* toggleCommentResolved(commentId)
toggleCommentResolved(id) ==
  /\ \E i \in DOMAIN comments : comments[i].id = id
  /\ SetComments([i \in DOMAIN comments |->
                    IF comments[i].id = id
                    THEN [comments[i] EXCEPT !.resolved = ~@] ELSE comments[i]],
                 activeCommentId)

\* state.comments.filter(comment => comment.id !== commentId)
RECURSIVE WithoutComment(_, _)
WithoutComment(cs, id) ==
  IF cs = <<>> THEN <<>>
  ELSE IF Head(cs).id = id THEN WithoutComment(Tail(cs), id)
  ELSE <<Head(cs)>> \o WithoutComment(Tail(cs), id)

\* deleteComment(commentId)
deleteComment(id) ==
  /\ \E i \in DOMAIN comments : comments[i].id = id
  /\ SetComments(WithoutComment(comments, id),
                 IF activeCommentId = id THEN NoId ELSE activeCommentId)

\* updateCommentPosition(commentId, newX, newY, newSelector) as the layer's
\* drag handlers call it
UpdatePosition(id, pos, sel) ==
  /\ \E i \in DOMAIN comments : comments[i].id = id
  /\ SetComments(updateCommentPosition(comments, id, pos.x, pos.y, sel),
                 activeCommentId)

InitStore ==
  /\ comments = <<>> /\ activeCommentId = NoId /\ isVisible = TRUE
  /\ isCreatingComment = FALSE /\ newCommentPosition = Null
  /\ isSidebarOpen = FALSE /\ nextId = 1 /\ lastSaved = Null
  /\ showPins = TRUE /\ scrollOffsets = Pt(0, 0) /\ draggingCommentId = NoId
  /\ recentlyDraggedCommentIds = {} /\ isScoped = FALSE
  /\ winScroll = Pt(0, 0) /\ contScroll = Pt(0, 0) /\ now = Epoch
  /\ clickStartPos = [i \in Ids |-> Null] /\ lastDragUpdate = [i \in Ids |-> 0]
  /\ isDragging = [i \in Ids |-> FALSE] /\ live = <<>> /\ ended = {}
  /\ gestures = 0 /\ ticks = 0
  /\ isNavigationMode = FALSE /\ history = <<>> /\ timers = <<>>
  /\ saves = <<>> /\ storage = Null /\ errors = 0 /\ uncaught = FALSE
  /\ load = LoadSettled /\ hl = HighlightIdle /\ grace = GraceIdle
  /\ FilterIdle /\ CoordIdle /\ SelIdle

NextStore ==
  \/ \E p \in ClickPts : DocClick(p) /\ UNCHANGED <<history, timers, storeVars>>
  \/ \E call \in AdapterCalls :
       /\ nextId \in Ids
       /\ createComment(NoSel)
       /\ saveComments(lastSaved'[1], call)
       /\ UNCHANGED <<history, timers>>
  \/ \E id \in Ids, call \in AdapterCalls :
       addReply(id) /\ saveComments(lastSaved'[1], call)
  \/ \E id \in Ids, call \in AdapterCalls :
       toggleCommentResolved(id) /\ saveComments(lastSaved'[1], call)
  \/ \E id \in Ids, call \in AdapterCalls :
       deleteComment(id) /\ saveComments(lastSaved'[1], call)
  \/ \E id \in Ids, pos \in StorePositions, call \in AdapterCalls :
       UpdatePosition(id, pos, NoSel) /\ saveComments(lastSaved'[1], call)
  \/ \E k \in 1..MaxSaves, fulfilled \in BOOLEAN : SaveSettles(k, fulfilled)

SpecStore == InitStore /\ [][NextStore]_vars

(***************************************************************************)
(* SpecLoad: the mount effect of useComments.  loadComments() is called at *)
(* mount and its promise resolves later; a subscribed adapter pushes       *)
(* lists; both replace the comment list of the state and nothing else.     *)
(* The backing store holds one comment from an earlier visit.              *)
(***************************************************************************)
\* the comment the backing store holds at mount
StoredComment ==
  [id |-> MaxComments + 1, x |-> Fin(50), y |-> Fin(50), selector |-> NoSel,
   resolved |-> FALSE, replies |-> 0]

\* the lists a subscribed adapter pushes
PushLists == {<<>>, <<StoredComment>>}

\* setState((prev) => ({ ...prev, comments })) of the mount effect
ReplaceComments(list) ==
  /\ comments' = list
  /\ ended' = {}
  /\ UNCHANGED <<activeCommentId, isVisible, isCreatingComment,
                 newCommentPosition, isSidebarOpen, nextId, lastSaved, showPins,
                 scrollOffsets, draggingCommentId, recentlyDraggedCommentIds,
                 isScoped, winScroll, contScroll, now, clickStartPos,
                 lastDragUpdate, isDragging, live, gestures, ticks>>
  /\ UNCHANGED <<filterVars, coordVars, selVars, isNavigationMode, history,
                 timers, saves, storage, errors, uncaught, hl,
                 grace>>

\* the backing store answers the load request with the list it holds
LoadAnswered ==
  /\ load.phase = "sent"
  /\ load' = [phase |-> "answered",
              value |-> IF storage = Null THEN <<>> ELSE storage[1]]
  /\ UNCHANGED <<stateVars, isNavigationMode, history, timers, filterVars,
                 coordVars, selVars, saves, storage, errors, uncaught, hl,
                 grace>>

\* storageAdapter.loadComments().then((comments) => setState(...))
LoadResolves ==
  /\ load.phase = "answered"
  /\ load' = LoadSettled
  /\ ReplaceComments(load.value)

\* the callback passed to storageAdapter.subscribeToChanges
SubscribePush(list) ==
  /\ load.phase = "settled"
  /\ list # comments
  /\ ReplaceComments(list)
  /\ UNCHANGED load

InitLoad ==
  /\ comments = <<>> /\ activeCommentId = NoId /\ isVisible = TRUE
  /\ isCreatingComment = FALSE /\ newCommentPosition = Null
  /\ isSidebarOpen = FALSE /\ nextId = 1 /\ lastSaved = Null
  /\ showPins = TRUE /\ scrollOffsets = Pt(0, 0) /\ draggingCommentId = NoId
  /\ recentlyDraggedCommentIds = {} /\ isScoped = FALSE
  /\ winScroll = Pt(0, 0) /\ contScroll = Pt(0, 0) /\ now = Epoch
  /\ clickStartPos = [i \in Ids |-> Null] /\ lastDragUpdate = [i \in Ids |-> 0]
  /\ isDragging = [i \in Ids |-> FALSE] /\ live = <<>> /\ ended = {}
  /\ gestures = 0 /\ ticks = 0
  /\ isNavigationMode = FALSE /\ history = <<>> /\ timers = <<>>
  /\ saves = <<>> /\ storage = Some(<<StoredComment>>) /\ errors = 0
  /\ uncaught = FALSE
  /\ load = [phase |-> "sent", value |-> <<>>]
  /\ hl = HighlightIdle /\ grace = GraceIdle
  /\ FilterIdle /\ CoordIdle /\ SelIdle

NextLoad ==
  \/ LoadAnswered
  \/ LoadResolves
  \/ \E list \in PushLists : SubscribePush(list)
  \/ \E p \in ClickPts : DocClick(p) /\ UNCHANGED <<history, timers, storeVars>>
  \/ /\ nextId <= MaxComments
     /\ createComment(NoSel)
     /\ saveComments(lastSaved'[1], "promise")
     /\ UNCHANGED <<history, timers>>
  \/ \E id \in Ids : deleteComment(id) /\ saveComments(lastSaved'[1], "promise")
  \/ \E id \in Ids : addReply(id) /\ saveComments(lastSaved'[1], "promise")
  \/ \E i \in 1..(MaxComments + 1) :
       PinOnClick(i) /\ UNCHANGED <<history, timers, storeVars>>
  \/ \E k \in 1..MaxSaves, fulfilled \in BOOLEAN : SaveSettles(k, fulfilled)

SpecLoad == InitLoad /\ [][NextLoad]_vars

\* SpecRace: the mount effect with local mutations that remove nothing, and
\* no other client: what the stores hold afterwards is what was stored before
\* plus what was created
NextRace ==
  \/ LoadAnswered
  \/ LoadResolves
  \/ \E p \in ClickPts : DocClick(p) /\ UNCHANGED <<history, timers, storeVars>>
  \/ /\ nextId <= MaxComments
     /\ createComment(NoSel)
     /\ saveComments(lastSaved'[1], "promise")
     /\ UNCHANGED <<history, timers>>
  \/ \E id \in Ids : addReply(id) /\ saveComments(lastSaved'[1], "promise")
  \/ \E id \in Ids : toggleCommentResolved(id) /\ saveComments(lastSaved'[1], "promise")
  \/ \E i \in 1..(MaxComments + 1) :
       PinOnClick(i) /\ UNCHANGED <<history, timers, storeVars>>
  \/ \E k \in 1..MaxSaves, fulfilled \in BOOLEAN : SaveSettles(k, fulfilled)

SpecRace == InitLoad /\ [][NextRace]_vars

(***************************************************************************)
(* SpecHighlight: one host element E, the anchor of one pin, and the       *)
(* outline the widget draws on it: on hover (CommentBubble) and under a    *)
(* dragged pin (CommentLayer).  hl.style is E's inline outline and         *)
(* outline-offset, hl.orig what the host page had set; hoverSaved and      *)
(* dragSaved are the __commentWidgetOriginal* and __commentWidgetDrag*     *)
(* properties on E, attr the data-comment-widget-highlight attribute,      *)
(* pinHl the pin's highlightedElement state, dragCur and dragSet the       *)
(* layer's currentDragHighlightRef and dragHighlightedElementsRef.  Each   *)
(* action is a handler together with the effects of the render that its    *)
(* state updates cause.                                                    *)
(***************************************************************************)
\* what the host page may have set inline on E
HostStyles ==
  {[outline |-> o, offset |-> f] : o \in {"", HostStyle.outline},
                                   f \in {"", HostStyle.offset}}

\* (el as any).__commentWidget...Outline || '', ...OutlineOffset || ''
OrEmpty(saved) == IF saved = Null THEN NoStyle ELSE saved[1]

\* the loop over querySelectorAll('[data-comment-widget-highlight]') in
\* clearAllHoverHighlights, in onDragStart and in the layer's [isVisible] effect
ClearMarkedHighlights(h) ==
  IF h.attr
  THEN [h EXCEPT !.style = OrEmpty(h.hoverSaved), !.attr = FALSE,
                 !.hoverSaved = Null]
  ELSE h

\* the pin puts back what it saved, removes the attribute, deletes the
\* properties (handleMouseLeave, the [isDragging, isActive] effect, the first
\* cleanup)
RestoreAndForget(h) ==
  [h EXCEPT !.style = OrEmpty(h.hoverSaved), !.attr = FALSE, !.hoverSaved = Null]

\* the second cleanup: puts back the properties' values and nothing else
RestoreOnly(h) == [h EXCEPT !.style = OrEmpty(h.hoverSaved)]

\* the cleanups of the two [highlightedElement] effects, run when the state
\* changes away from E or the pin unmounts; their closure holds E
EffectCleanups(h) == RestoreOnly(RestoreAndForget(h))

\* setHighlightedElement(null) and the render it causes
ForgetHighlighted(h) ==
  IF h.pinHl THEN EffectCleanups([h EXCEPT !.pinHl = FALSE]) ELSE h

\* the [isDragging, isActive, highlightedElement] effect of the pin
ClearOnDragOrActive(h) ==
  IF (h.dragging \/ h.active) /\ h.pinHl
  THEN ForgetHighlighted(RestoreAndForget(h))
  ELSE h

\* handleMouseEnter of the pin; its selector resolves to E
HoverEnter ==
  /\ hl.mounted /\ ~hl.hovered
  /\ hl' = IF ~hl.dragging /\ ~hl.active
           THEN LET h == ClearMarkedHighlights(hl)
                IN [h EXCEPT !.hoverSaved = Some(h.style), !.style = WidgetStyle,
                             !.attr = TRUE, !.pinHl = TRUE, !.hovered = TRUE]
           ELSE [hl EXCEPT !.hovered = TRUE]

\* handleMouseLeave of the pin
HoverLeave ==
  /\ hl.mounted /\ hl.hovered /\ ~hl.dragging
  /\ hl' = [(IF hl.pinHl THEN ForgetHighlighted(RestoreAndForget(hl)) ELSE hl)
              EXCEPT !.hovered = FALSE]

\* the pin is clicked: its thread opens or closes
HoverClick ==
  /\ hl.mounted /\ hl.hovered /\ ~hl.dragging
  /\ hl' = ClearOnDragOrActive([hl EXCEPT !.active = ~@])

\* the threshold is crossed: setIsDragging(true), onDragStart()
HighlightDragStart ==
  /\ hl.mounted /\ hl.hovered /\ ~hl.dragging
  /\ hl' = ClearOnDragOrActive(ClearMarkedHighlights([hl EXCEPT !.dragging = TRUE]))

\* the highlight part of the layer's onDrag; onE: the picker returns E
HighlightOnDrag(onE) ==
  /\ hl.dragging
  /\ LET h1 == IF hl.dragCur /\ ~onE
               THEN [hl EXCEPT !.style = OrEmpty(hl.dragSaved),
                               !.dragSaved = Null, !.dragCur = FALSE]
               ELSE hl
         h2 == IF onE /\ ~h1.dragCur
               THEN [h1 EXCEPT !.dragSaved = Some(h1.style), !.style = WidgetStyle,
                               !.dragCur = TRUE, !.dragSet = TRUE]
               ELSE h1
     IN hl' = h2

\* the loop over dragHighlightedElementsRef and its clear()
ClearTrackedDragHighlights(h) ==
  [(IF h.dragSet /\ h.dragSaved # Null
    THEN [h EXCEPT !.style = OrEmpty(h.dragSaved), !.dragSaved = Null]
    ELSE h) EXCEPT !.dragSet = FALSE]

\* the highlight part of the layer's onDragEnd, then the bubble's cleanup()
HighlightOnDragEnd ==
  /\ hl.dragging
  /\ LET h1 == IF hl.dragCur
               THEN [hl EXCEPT !.style = OrEmpty(hl.dragSaved),
                               !.dragSaved = Null, !.dragCur = FALSE]
               ELSE hl
     IN hl' = [ClearTrackedDragHighlights(h1) EXCEPT !.dragging = FALSE]

\* the 5 s timer ends the session: cleanup() alone
HighlightSafetyTimeout ==
  /\ hl.dragging
  /\ hl' = [hl EXCEPT !.dragging = FALSE]

\* the overlay is hidden with no session live: the pin unmounts (its
\* cleanups run), then the layer's [isVisible] effect
HighlightHide ==
  /\ hl.mounted /\ ~hl.dragging
  /\ LET h1 == IF hl.pinHl THEN EffectCleanups(hl) ELSE hl
         h2 == ClearTrackedDragHighlights(ClearMarkedHighlights(h1))
     IN hl' = [h2 EXCEPT !.mounted = FALSE, !.hovered = FALSE, !.pinHl = FALSE,
                         !.active = FALSE]

\* the overlay is shown and the pin mounts
HighlightShow ==
  /\ ~hl.mounted
  /\ hl' = [hl EXCEPT !.mounted = TRUE]

InitHighlight ==
  /\ \E o \in HostStyles : hl = [HighlightIdle EXCEPT !.orig = o, !.style = o]
  /\ saves = <<>> /\ storage = Null /\ errors = 0 /\ uncaught = FALSE
  /\ load = LoadSettled /\ grace = GraceIdle
  /\ comments = <<>> /\ activeCommentId = NoId /\ isVisible = FALSE
  /\ isCreatingComment = FALSE /\ newCommentPosition = Null
  /\ isSidebarOpen = FALSE /\ nextId = 1 /\ lastSaved = Null
  /\ showPins = FALSE /\ scrollOffsets = Pt(0, 0) /\ draggingCommentId = NoId
  /\ recentlyDraggedCommentIds = {} /\ isScoped = FALSE
  /\ winScroll = Pt(0, 0) /\ contScroll = Pt(0, 0) /\ now = Epoch
  /\ clickStartPos = [i \in Ids |-> Null] /\ lastDragUpdate = [i \in Ids |-> 0]
  /\ isDragging = [i \in Ids |-> FALSE] /\ live = <<>> /\ ended = {}
  /\ gestures = 0 /\ ticks = 0
  /\ isNavigationMode = FALSE /\ history = <<>> /\ timers = <<>>
  /\ FilterIdle /\ CoordIdle /\ SelIdle

HighlightFrame ==
  UNCHANGED <<stateVars, isNavigationMode, history, timers, filterVars,
              coordVars, selVars, saves, storage, errors, uncaught, load,
              grace>>

NextHighlight ==
  \/ HoverEnter /\ HighlightFrame
  \/ HoverLeave /\ HighlightFrame
  \/ HoverClick /\ HighlightFrame
  \/ HighlightDragStart /\ HighlightFrame
  \/ \E onE \in BOOLEAN : HighlightOnDrag(onE) /\ HighlightFrame
  \/ HighlightOnDragEnd /\ HighlightFrame
  \/ HighlightSafetyTimeout /\ HighlightFrame
  \/ HighlightHide /\ HighlightFrame
  \/ HighlightShow /\ HighlightFrame

SpecHighlight == InitHighlight /\ [][NextHighlight]_vars

(***************************************************************************)
(* SpecFrame: one gesture session on a pin while the store changes under   *)
(* it: replies, resolve, delete and pushes of a subscribed adapter arrive  *)
(* between the pointer-down and the position updates of the session.  The  *)
(* saves are left out: only the state's comment list is followed.          *)
(***************************************************************************)
\* the comment whose pin is pressed
PinnedComment ==
  [id |-> 1, x |-> Fin(300), y |-> Fin(300), selector |-> NoSel,
   resolved |-> FALSE, replies |-> 0]

\* the lists a subscribed adapter pushes during the session
FramePushLists == {<<PinnedComment, StoredComment>>}

InitFrame ==
  /\ comments = <<PinnedComment>> /\ activeCommentId = NoId /\ isVisible = TRUE
  /\ isCreatingComment = FALSE /\ newCommentPosition = Null
  /\ isSidebarOpen = FALSE /\ nextId = 2 /\ lastSaved = Null
  /\ showPins = TRUE /\ scrollOffsets = Pt(0, 0) /\ draggingCommentId = NoId
  /\ recentlyDraggedCommentIds = {} /\ isScoped = FALSE
  /\ winScroll = Pt(0, 0) /\ contScroll = Pt(0, 0) /\ now = Epoch
  /\ clickStartPos = [i \in Ids |-> Null] /\ lastDragUpdate = [i \in Ids |-> 0]
  /\ isDragging = [i \in Ids |-> FALSE] /\ live = <<>> /\ ended = {}
  /\ gestures = 0 /\ ticks = 0
  /\ isNavigationMode = FALSE /\ history = <<>> /\ timers = <<>>
  /\ saves = <<>> /\ storage = Some(<<PinnedComment>>) /\ errors = 0
  /\ uncaught = FALSE
  /\ load = LoadSettled /\ hl = HighlightIdle /\ grace = GraceIdle
  /\ FilterIdle /\ CoordIdle /\ SelIdle

NextFrame ==
  \/ \E p \in DownPts :
       PointerDown(1, p) /\ UNCHANGED <<history, timers, storeVars>>
  \/ \E p \in ClientPts : PointerMove(p) /\ UNCHANGED <<history, timers, storeVars>>
  \/ \E p \in ClientPts, sel \in Selectors \cup {NoSel} :
       PointerUp(p, sel) /\ UNCHANGED <<history, timers, storeVars>>
  \/ \E id \in Ids : addReply(id) /\ UNCHANGED storeVars
  \/ \E id \in Ids : toggleCommentResolved(id) /\ UNCHANGED storeVars
  \/ \E id \in Ids : deleteComment(id) /\ UNCHANGED storeVars
  \/ \E list \in FramePushLists : SubscribePush(list)

SpecFrame == InitFrame /\ [][NextFrame]_vars


(***************************************************************************)
(* SpecGrace: the recently-dropped set and the timers that empty it.  A    *)
(* drop (onDragEnd) and the close button of a thread (onClose) add the     *)
(* pin's id and set a timer; the timer's callback tests the position its   *)
(* closure holds against the viewport as it is then and either removes the *)
(* id or sets one more timer that removes it.  Time is kept as what is     *)
(* left on each pending timer and advances in steps of the shorter delay.  *)
(***************************************************************************)
MaxGraceTimers == 2
DropGraceMs == 1000
CloseGraceMs == 2000
DropGraceMargin == 200
CloseGraceMargin == 600

GraceDropPts == {Pt(340, 290), Pt(340, 2000)}
GraceScrolls == {Pt(0, 0), Pt(0, 1500)}

\* isVisible of the timer callbacks, full-page branch; the positions of this
\* specification are finite numbers
InGraceViewport(x, y, m) ==
  LET vx == x - winScroll.x
      vy == y - winScroll.y
      vw == ViewportSize.x - (IF isSidebarOpen THEN SidebarWidth ELSE 0)
      vh == ViewportSize.y
  IN /\ vx >= -m /\ vx <= vw + m
     /\ vy >= -m /\ vy <= vh + m

GraceDelay(kind) == IF kind = "drop" THEN DropGraceMs ELSE CloseGraceMs
GraceMargin(kind) == IF kind = "drop" THEN DropGraceMargin ELSE CloseGraceMargin

\* setTimeout(callback, delay) of a handler whose closure holds id and (x, y)
GraceTimer(id, kind, x, y) ==
  [id |-> id, kind |-> kind, stage |-> 1, left |-> GraceDelay(kind), x |-> x,
   y |-> y]

WithoutGraceTimer(k) ==
  [j \in 1..(Len(grace.timers) - 1) |->
     IF j < k THEN grace.timers[j] ELSE grace.timers[j + 1]]

\* the callback drops its timer without setting another
LetGo(rest, t) == rest

\* the inner setTimeout of the callback: the id is kept for one more delay
KeepLonger(rest, t) ==
  Append(rest, [t EXCEPT !.stage = 2, !.left = GraceDelay(t.kind)])

GraceFrame ==
  UNCHANGED <<isVisible, isCreatingComment, newCommentPosition, isSidebarOpen,
              nextId, lastSaved, showPins, scrollOffsets, isScoped, contScroll,
              now, clickStartPos, lastDragUpdate, isDragging, live, ended,
              gestures, ticks, isNavigationMode, history, timers, saves,
              storage, errors, uncaught, load, hl, filterVars, coordVars,
              selVars>>

\* the end of the layer's onDragEnd for the pin of comment id, dropped at pos
GraceDrop(id, pos) ==
  /\ \E i \in DOMAIN comments : comments[i].id = id
  /\ Len(grace.timers) < MaxGraceTimers
  /\ comments' = updateCommentPosition(comments, id, Fin(pos.x), Fin(pos.y), NoSel)
  /\ recentlyDraggedCommentIds' = recentlyDraggedCommentIds \cup {id}
  /\ draggingCommentId' = NoId
  /\ grace' = [grace EXCEPT
                 !.timers = Append(@, GraceTimer(id, "drop", pos.x, pos.y))]
  /\ UNCHANGED <<activeCommentId, winScroll>>
  /\ GraceFrame

\* onClose of the open thread
GraceClose ==
  /\ activeCommentId # NoId
  /\ Len(grace.timers) < MaxGraceTimers
  /\ \E i \in DOMAIN comments :
       /\ comments[i].id = activeCommentId
       /\ grace' = [grace EXCEPT
                      !.timers = Append(@, GraceTimer(activeCommentId, "close",
                                                      comments[i].x.v, comments[i].y.v))]
  /\ recentlyDraggedCommentIds' = recentlyDraggedCommentIds \cup {activeCommentId}
  /\ activeCommentId' = NoId
  /\ UNCHANGED <<comments, draggingCommentId, winScroll>>
  /\ GraceFrame

\* a pending timer's callback runs
GraceTimerFires(k) ==
  /\ k \in DOMAIN grace.timers
  /\ grace.timers[k].left = 0
  /\ LET t == grace.timers[k]
         remove == t.stage = 2 \/ InGraceViewport(t.x, t.y, GraceMargin(t.kind))
     IN /\ recentlyDraggedCommentIds' =
             IF remove THEN recentlyDraggedCommentIds \ {t.id}
             ELSE recentlyDraggedCommentIds
        /\ grace' =
             [timers |-> IF remove THEN LetGo(WithoutGraceTimer(k), t)
                         ELSE KeepLonger(WithoutGraceTimer(k), t),
              removed |-> IF remove /\ t.id \in recentlyDraggedCommentIds
                          THEN grace.removed \cup {t.stage}
                          ELSE grace.removed]
  /\ UNCHANGED <<comments, activeCommentId, draggingCommentId, winScroll>>
  /\ GraceFrame

\* time passes up to the next timer that is due
GraceTick ==
  /\ grace.timers # <<>>
  /\ \A k \in DOMAIN grace.timers : grace.timers[k].left > 0
  /\ grace' = [grace EXCEPT
                 !.timers = [k \in DOMAIN @ |-> [@[k] EXCEPT !.left = @ - DropGraceMs]]]
  /\ UNCHANGED <<comments, activeCommentId, draggingCommentId,
                 recentlyDraggedCommentIds, winScroll>>
  /\ GraceFrame

\* the page is scrolled
GraceScroll(v) ==
  /\ v # winScroll
  /\ winScroll' = v
  /\ UNCHANGED <<comments, activeCommentId, draggingCommentId,
                 recentlyDraggedCommentIds, grace>>
  /\ GraceFrame

InitGrace ==
  /\ comments = <<PinnedComment>> /\ activeCommentId = NoId /\ isVisible = TRUE
  /\ isCreatingComment = FALSE /\ newCommentPosition = Null
  /\ isSidebarOpen = FALSE /\ nextId = 2 /\ lastSaved = Null
  /\ showPins = TRUE /\ scrollOffsets = Pt(0, 0) /\ draggingCommentId = NoId
  /\ recentlyDraggedCommentIds = {} /\ isScoped = FALSE
  /\ winScroll = Pt(0, 0) /\ contScroll = Pt(0, 0) /\ now = Epoch
  /\ clickStartPos = [i \in Ids |-> Null] /\ lastDragUpdate = [i \in Ids |-> 0]
  /\ isDragging = [i \in Ids |-> FALSE] /\ live = <<>> /\ ended = {}
  /\ gestures = 0 /\ ticks = 0
  /\ isNavigationMode = FALSE /\ history = <<>> /\ timers = <<>>
  /\ saves = <<>> /\ storage = Some(<<PinnedComment>>) /\ errors = 0
  /\ uncaught = FALSE
  /\ load = LoadSettled /\ hl = HighlightIdle /\ grace = GraceIdle
  /\ FilterIdle /\ CoordIdle /\ SelIdle

NextGrace ==
  \/ \E id \in Ids, pos \in GraceDropPts : GraceDrop(id, pos)
  \/ \E i \in 1..MaxComments : PinOnClick(i) /\ UNCHANGED <<history, timers, storeVars>>
  \/ GraceClose
  \/ \E k \in 1..MaxGraceTimers : GraceTimerFires(k)
  \/ GraceTick
  \/ \E v \in GraceScrolls : GraceScroll(v)

\* the browser runs a timer that is due, and time does not stop
GraceFairness ==
  /\ WF_vars(\E k \in 1..MaxGraceTimers : GraceTimerFires(k))
  /\ WF_vars(GraceTick)

SpecGrace == InitGrace /\ [][NextGrace]_vars /\ GraceFairness

(***************************************************************************)
(* SpecDrag: the gesture sessions of one pin at the resolution of the      *)
(* throttle (10 and 20 ms steps) and up to the safety timeout.  A press    *)
(* lands on the pin's 24 px disc, or anywhere once the pin is dragging:    *)
(* the dragging pin renders a child that covers the viewport, and the      *)
(* press handler does not look at the button or at a session in progress.  *)
(***************************************************************************)
MaxDragSessions == 2
MaxDragTicks == 3
PinRadius == 12
DragSteps == {10, 20, 4990}
DragPts == {Pt(300, 300), Pt(303, 300), Pt(340, 290)}

\* the press at viewport point p reaches onMouseDown of the pin of comment i
OnPin(i, p) ==
  LET v == FilterViewport(comments[i], RenderEnv)
  IN \/ isDragging[comments[i].id]
     \/ /\ FLe(FSub(v.x, Fin(PinRadius)), Fin(p.x)) /\ FLe(Fin(p.x), FAdd(v.x, Fin(PinRadius)))
        /\ FLe(FSub(v.y, Fin(PinRadius)), Fin(p.y)) /\ FLe(Fin(p.y), FAdd(v.y, Fin(PinRadius)))

DragDown(i, p) ==
  /\ gestures < MaxDragSessions
  /\ Len(live) < MaxDragSessions
  /\ i \in DOMAIN comments
  /\ OnPin(i, p)
  /\ handleMouseDown(i, p)

\* time passes, up to the moment the next safety timer is due
DragTick(d) ==
  /\ live # <<>>
  /\ ticks < MaxDragTicks
  /\ \A k \in DOMAIN live : now + d - live[k].startTime <= SafetyTimeoutMs
  /\ now' = now + d
  /\ ticks' = ticks + 1
  /\ UNCHANGED <<comments, activeCommentId, isVisible, isCreatingComment,
                 newCommentPosition, isSidebarOpen, nextId, lastSaved, showPins,
                 scrollOffsets, draggingCommentId, recentlyDraggedCommentIds,
                 isScoped, winScroll, contScroll, clickStartPos, lastDragUpdate,
                 isDragging, live, gestures>>
  /\ ended' = {}
  /\ UNCHANGED <<filterVars, coordVars, selVars, isNavigationMode>>

\* the timers all have the same delay and run in the order they were set:
\* the due timer is that of the oldest live session
DueTimer == SafetyTimeout(1)

InitDrag == InitValve

NextDrag ==
  \/ \E i \in 1..MaxComments, p \in DragPts :
       DragDown(i, p) /\ UNCHANGED <<history, timers, storeVars>>
  \/ \E p \in DragPts : PointerMove(p) /\ UNCHANGED <<history, timers, storeVars>>
  \/ \E p \in DragPts : PointerUp(p, NoSel) /\ UNCHANGED <<history, timers, storeVars>>
  \/ DueTimer /\ UNCHANGED <<history, timers, storeVars>>
  \/ \E d \in DragSteps : DragTick(d) /\ UNCHANGED <<history, timers, storeVars>>

SpecDrag == InitDrag /\ [][NextDrag]_vars


(***************************************************************************)
(* Properties                                                              *)
(***************************************************************************)
ThresholdSq == dragThreshold * dragThreshold

\* the sessions ended by a pointer-up in the latest step
EndedByUp == {o \in ended : o.how = "up"}

\* C1 (as the code has it): a session ended by a pointer-up commits a
\* position exactly when one of its move events was farther than 3 px from the
\* start point recorded for the pin (it entered Dragging), and fires the click
\* handler exactly when no move event was that far, the pointer-up is within
\* 3 px of that start point and less than 150 ms elapsed since pointer-down;
\* a session never does both, and one that never dragged and lasted 150 ms or
\* more, or was released farther than 3 px away, does neither.
C1_CommitIffDraggedClickIffShortAndNear ==
  \A o \in EndedByUp :
    /\ o.committed <=> o.farthest > ThresholdSq
    /\ o.clicked <=> (/\ o.farthest <= ThresholdSq
                      /\ o.codeDistSq <= ThresholdSq
                      /\ o.elapsed < ClickTimeMs)
    /\ ~(o.committed /\ o.clicked)

\* a session that dragged and was released within 3 px of its start in under
\* 150 ms: its position was committed and the click handler did not fire
C1_Witness ==
  \E o \in EndedByUp :
    /\ o.distSq <= ThresholdSq /\ o.elapsed < ClickTimeMs
    /\ o.committed /\ ~o.clicked

\* C1 as stated: pointer-up within 3 px of the pointer-down point and under
\* 150 ms gives a click and no commit; every other pointer-up gives a commit
\* and no click.
C1_AsStated ==
  \A o \in EndedByUp :
    LET shortAndNear == o.distSq <= ThresholdSq /\ o.elapsed < ClickTimeMs
    IN /\ shortAndNear => (o.clicked /\ ~o.committed)
       /\ ~shortAndNear => (o.committed /\ ~o.clicked)

\* pointer's viewport position plus the scroll offset of the scrolling element
PointerDoc(client, scroll) == Pt(client.x + scroll.x, client.y + scroll.y)

\* C2: the position committed at the pointer-up of a session that entered
\* Dragging is pinStart + (pointerDoc at pointer-up - pointerDoc at
\* pointer-down), both taken with the scroll offset in effect at that moment.
C2_CommitIsStartPlusPointerDelta ==
  \A o \in EndedByUp :
    o.committed =>
      LET up == PointerDoc(o.upClient, o.upScroll)
          down == PointerDoc(o.downClient, o.downScroll)
      IN o.pos = [x |-> FAdd(o.pinStart.x, Fin(up.x - down.x)),
                  y |-> FAdd(o.pinStart.y, Fin(up.y - down.y))]

\* the filter has been applied to the input
Filtered == fin # Null /\ fout # Null

FilterInputExempt == fin[1].dragging = 1 \/ 1 \in fin[1].recent \/ fin[1].active = 1

NonFinite(a) == a.k # "fin"

Magnitude(a) == IF a.v < 0 THEN 0 - a.v ELSE a.v

\* C3: the filter never returns visible for an annotation whose x or y is NaN
\* or infinite, or whose viewport coordinate has magnitude >= 100000, whatever
\* the mode, the sidebar, and whether it is dragged, recently dropped or active.
C3_InvalidNeverVisible ==
  Filtered =>
    LET v == fout[1].viewport
        invalid == \/ NonFinite(fin[1].x) \/ NonFinite(fin[1].y)
                   \/ NonFinite(v.x) \/ NonFinite(v.y)
                   \/ Magnitude(v.x) >= AbsurdCoordinate
                   \/ Magnitude(v.y) >= AbsurdCoordinate
    IN invalid => ~fout[1].visible

FiniteComments(cs) ==
  \A i \in DOMAIN cs : cs[i].x.k = "fin" /\ cs[i].y.k = "fin"

\* C4: no comment with a NaN or infinite coordinate is in the store or in a
\* list passed to saveComments.
C4_StoredCoordinatesFinite ==
  /\ FiniteComments(comments)
  /\ lastSaved # Null => FiniteComments(lastSaved[1])

\* C5: the filter returns visible for every annotation that is being dragged,
\* is in the recently-dropped set or is the active thread, whatever the
\* scroll position, the container offset and the sidebar state.
C5_ExemptAlwaysVisible ==
  (Filtered /\ FilterInputExempt) => fout[1].visible

\* the active thread's pin, far below the visible area and with the sidebar
\* open, is returned as visible
C5_Witness ==
  /\ Filtered
  /\ fin[1].active = 1 /\ fin[1].dragging = NoId /\ fin[1].recent = {}
  /\ fin[1].y = Fin(5000) /\ fin[1].sidebar
  /\ fout[1].visible

\* the visible rectangle (ViewportSize) expanded by the margin on every side
InExpandedRect(v) ==
  /\ v.x.k = "fin" /\ v.y.k = "fin"
  /\ 0 - margin <= v.x.v /\ v.x.v <= ViewportSize.x + margin
  /\ 0 - margin <= v.y.v /\ v.y.v <= ViewportSize.y + margin

\* finite and of magnitude below 100000
PlausiblePoint(v) ==
  /\ v.x.k = "fin" /\ v.y.k = "fin"
  /\ Magnitude(v.x) < AbsurdCoordinate /\ Magnitude(v.y) < AbsurdCoordinate

\* C6 (as the code has it): for an annotation that is not dragged, not
\* recently dropped and not active, in full-page mode the filter returns
\* visible only if the viewport position lies inside the visible rectangle
\* expanded by 200 px on every side; in scoped mode the margin is not tested:
\* the filter returns visible exactly when the viewport position is finite,
\* of magnitude below 100000, and not right of (width - 320) while the
\* sidebar is open.
C6_MarginTestedInFullPageOnly ==
  (Filtered /\ ~FilterInputExempt) =>
    LET v == fout[1].viewport IN
    IF fin[1].scoped
    THEN fout[1].visible <=>
           (/\ PlausiblePoint(v)
            /\ fin[1].sidebar => v.x.v <= ViewportSize.x - SidebarWidth)
    ELSE fout[1].visible => InExpandedRect(v)

\* scoped mode: a non-exempt annotation far outside the expanded rectangle is
\* returned as visible
C6_Witness ==
  /\ Filtered /\ ~FilterInputExempt
  /\ fin[1].scoped
  /\ fout[1].visible
  /\ ~InExpandedRect(fout[1].viewport)

\* C6 as stated: in both modes a non-exempt annotation is visible only if its
\* viewport position lies inside the visible rectangle expanded by 200 px.
C6_AsStated ==
  (Filtered /\ ~FilterInputExempt /\ fout[1].visible)
    => InExpandedRect(fout[1].viewport)

\* C7: with the sidebar open, a non-exempt annotation whose viewport x is
\* greater than (visible width - 320) is not visible, in both modes.
C7_UnderSidebarExcluded ==
  (/\ Filtered /\ ~FilterInputExempt
   /\ fin[1].sidebar
   /\ FLt(Fin(ViewportSize.x - SidebarWidth), fout[1].viewport.x))
    => ~fout[1].visible

\* width 800, sidebar open, viewport x 750 inside the vertical range, scoped:
\* not visible
C7_Witness ==
  /\ Filtered /\ ~FilterInputExempt
  /\ fin[1].sidebar /\ fin[1].scoped
  /\ fout[1].viewport = [x |-> Fin(750), y |-> Fin(50)]
  /\ ~fout[1].visible

\* docPoint - containerDocOffset - containerScroll, or docPoint - windowScroll
SpecToViewport(i) ==
  IF i.scoped
  THEN [x |-> FSub(FSub(i.x, Fin(i.contDocOff.x)), Fin(i.contScroll.x)),
        y |-> FSub(FSub(i.y, Fin(i.contDocOff.y)), Fin(i.contScroll.y))]
  ELSE [x |-> FSub(i.x, Fin(i.winScroll.x)), y |-> FSub(i.y, Fin(i.winScroll.y))]

\* container at document offset (100,200), scroll (0,0), annotation at (150,250)
C8_Scenario(i) ==
  /\ i.scoped /\ i.contDocOff = Pt(100, 200) /\ i.contScroll = Pt(0, 0)
  /\ i.x = Fin(150) /\ i.y = Fin(250)
  /\ ~i.sidebar /\ i.dragging = NoId /\ i.recent = {} /\ i.active = NoId

\* C8: the viewport position the filter computes is docPoint -
\* containerDocOffset - containerScroll when scoped and docPoint -
\* windowScroll in full-page mode; the scenario annotation maps to (50,50)
\* and is visible.
C8_ViewportProjection ==
  Filtered =>
    /\ fout[1].viewport = SpecToViewport(fin[1])
    /\ C8_Scenario(fin[1]) =>
         (fout[1].viewport = [x |-> Fin(50), y |-> Fin(50)] /\ fout[1].visible)

\* the scenario, with the window scrolled: viewport (50,50), visible
C8_Witness ==
  /\ Filtered /\ C8_Scenario(fin[1])
  /\ fin[1].winScroll = Pt(0, 20)
  /\ fout[1].viewport = [x |-> Fin(50), y |-> Fin(50)]
  /\ fout[1].visible

\* C9: a viewport click point converted to document space by the
\* background-click handler and back by the drag hit-test is the original
\* point, in both modes and for every frame.
C9_ClickRoundTrip ==
  (cin # Null /\ cout # Null /\ cout[1].back # Null)
    => cout[1].back[1] = FPt(cin[1].p)

\* scoped mode, window and container both scrolled: the round trip returned
\* the click point
C9_Witness ==
  /\ cin # Null /\ cout # Null /\ cout[1].back # Null
  /\ cin[1].scoped
  /\ cin[1].winScroll = Pt(15, 300) /\ cin[1].contScroll = Pt(7, 130)
  /\ cin[1].contDocOff = Pt(100, 200)
  /\ cout[1].back[1] = FPt(cin[1].p)

\* C10: resolving the selector generated for an attached element returns that
\* element, in every tree within the bounds, the tree being unchanged.
C10_SelectorRoundTrip ==
  resolved # Null => resolved[1] = target


\* C11: for an element with a non-empty id, generateSelector returns exactly
\* "#" followed by the id, whatever its tag, classes, siblings and ancestors,
\* and the drop-time generator returns the same string.
C11_IdSelectorIsHashId ==
  (selector # Null /\ dom[target].id # "") =>
    /\ SelectorText(selector[1]) = "#" \o dom[target].id
    /\ SelectorText(generateSelectorForElement(dom, target)) = "#" \o dom[target].id

\* a nested element with an id, a class and a same-tag sibling got "#hero"
C11_Witness ==
  /\ selector # Null
  /\ dom[target].id = "hero" /\ dom[target].cls # "" /\ dom[target].parent # Body
  /\ Cardinality(SameTagSiblings(dom, target)) > 1
  /\ SelectorText(selector[1]) = "#hero"


\* the selector text contains " > " / starts with "#"
ContainsChildCombinator(sel) == Len(sel) > 1
StartsWithHash(sel) == sel[1].tag = "" /\ sel[1].id # ""

\* the fallback chain as stated, Body (0) standing for "no element"
C12_Chain(d, sel) ==
  LET exact == querySelector(d, sel)
      last == querySelector(d, <<sel[Len(sel)]>>)
  IN IF querySelectorThrows(sel) THEN Body
     ELSE IF exact # Body THEN exact
     ELSE IF ContainsChildCombinator(sel) /\ last # Body THEN last
     ELSE IF StartsWithHash(sel) THEN getElementById(d, sel[1].id)
     ELSE Body

\* C12: resolving a stored selector never throws to its caller, and its
\* result is that of the chain: the exact match; failing that, for a path
\* selector, the match of the last segment; failing that, for a selector
\* starting with "#", the element with that id; otherwise, and for a
\* malformed selector, no element.
C12_ResolveNeverThrowsAndFollowsChain ==
  (selector # Null /\ resolved # Null) =>
    /\ ~thrown
    /\ resolved[1] = C12_Chain(dom, selector[1])

\* a path selector whose exact match failed was resolved by its last segment
C12_Witness ==
  /\ selector # Null /\ resolved # Null
  /\ ContainsChildCombinator(selector[1])
  /\ ~querySelectorThrows(selector[1])
  /\ querySelector(dom, selector[1]) = Body
  /\ resolved[1] # Body
  /\ ~thrown


\* the entry is excluded by identity or position: body, html, or inside the
\* widget's own subtree
ExcludedEntry(e) == e.node \in {Body, Html} \/ e.widget

\* C13: when every element of the hit-test stack at the new comment's point is
\* body, html or inside the widget, the comment createComment stores has no
\* selector, sits at the document position that was clicked
\* (newCommentPosition), and is the list handed to saveComments.
C13_AllExcludedGivesNoSelector ==
  (comments # <<>> /\ \A i \in DOMAIN stack : ExcludedEntry(stack[i])) =>
    /\ comments[1].selector = NoSel
    /\ comments[1].x = PickPosition.x /\ comments[1].y = PickPosition.y
    /\ lastSaved = Some(comments)

\* the case happens with a widget element of pickable size and tag on top
C13_Witness ==
  /\ comments # <<>>
  /\ \A i \in DOMAIN stack : ExcludedEntry(stack[i])
  /\ \E i \in DOMAIN stack :
       /\ stack[i].widget /\ stack[i].node \notin {Body, Html}
       /\ dom[stack[i].node].tag = "div" /\ dom[stack[i].node].id # ""
       /\ stack[i].w = 60 /\ stack[i].h = 60
  /\ comments[1].selector = NoSel

\* the terms of C14, on a stack entry of the current tree
NonExcludedEntry(e) ==
  ~ExcludedEntry(e) /\ dom[e.node].tag \notin excludedTags
InBand(e) ==
  /\ e.w >= 50 /\ e.h >= 50 /\ e.w * e.h >= 2000
  /\ 10 * e.w < 9 * ViewportSize.x /\ 10 * e.h < 9 * ViewportSize.y
Oversized(e) ==
  10 * e.w >= 9 * ViewportSize.x \/ 10 * e.h >= 9 * ViewportSize.y
FirstIndex(S) == IF S = {} THEN 0 ELSE Least(S)
FallbackAsStated ==
  FirstIndex({i \in DOMAIN stack :
                NonExcludedEntry(stack[i]) /\ ~Oversized(stack[i])})
FallbackInBand ==
  FirstIndex({i \in DOMAIN stack : NonExcludedEntry(stack[i]) /\ InBand(stack[i])})
NoneInBand ==
  \A i \in DOMAIN stack : ~(NonExcludedEntry(stack[i]) /\ InBand(stack[i]))
EarlierPassesPickNothing ==
  /\ FirstLoop(dom, stack) = 0
  /\ SecondLoop(dom, stack) = 0
SelectorOfIndex(i) ==
  IF i = 0 THEN NoSel ELSE SelectorText(generateSelector(dom, stack[i].node))

Hidden == ~isVisible
Browsing == isVisible /\ activeCommentId = NoId /\ ~isCreatingComment
Creating == isVisible /\ isCreatingComment
ThreadOpen == isVisible /\ activeCommentId # NoId
WasHidden(m) == ~m.isVisible
WasBrowsing(m) == m.isVisible /\ m.activeCommentId = NoId /\ ~m.isCreatingComment
WasCreating(m) == m.isVisible /\ m.isCreatingComment
WasThreadOpen(m) == m.isVisible /\ m.activeCommentId # NoId

\* the latest event and the one before it
LastEvent == history[Len(history)]
Handled(ev) == history # <<>> /\ LastEvent.ev = ev
HandledTwice(ev) == Len(history) = 2 /\ history[1].ev = ev /\ history[2].ev = ev

\* C15 as stated: a toggle makes a hidden overlay visible (no thread, no
\* creation) and hides a visible one, whatever the sidebar; two toggles in a
\* row from Browsing end in Browsing.
C15_AsStated ==
  /\ Handled("toggle") =>
       IF WasHidden(LastEvent.pre) THEN Browsing ELSE Hidden
  /\ (HandledTwice("toggle") /\ WasBrowsing(history[1].pre)) => Browsing

\* C15 amended: a toggle hides a visible overlay and closes the sidebar; it
\* makes a hidden overlay visible (no thread, no creation) when the sidebar is
\* closed; with the overlay hidden and the sidebar still open it closes the
\* sidebar and the overlay stays hidden.  Two toggles in a row from Browsing
\* end in Browsing.
C15_ToggleClosesAllOrOpens ==
  /\ Handled("toggle") =>
       /\ ~WasHidden(LastEvent.pre) => (Hidden /\ ~isSidebarOpen)
       /\ (WasHidden(LastEvent.pre) /\ ~LastEvent.pre.isSidebarOpen) => Browsing
       /\ (WasHidden(LastEvent.pre) /\ LastEvent.pre.isSidebarOpen) =>
            (Hidden /\ ~isSidebarOpen)
       /\ activeCommentId = NoId /\ ~isCreatingComment /\ newCommentPosition = Null
  /\ (HandledTwice("toggle") /\ WasBrowsing(history[1].pre)) => Browsing

\* two toggles in a row from Browsing; and a toggle that found the overlay
\* hidden with the sidebar open is the other case (C15_AsStated's trace)
C15_Witness ==
  /\ HandledTwice("toggle") /\ WasBrowsing(history[1].pre)
  /\ history[1].pre.isSidebarOpen
  /\ Browsing


\* the document position of the background click of SpecMode: the client
\* point plus the page scroll, plus the container's scroll in scoped mode
ClickDocPosition ==
  LET p == CHOOSE q \in ClickPts : TRUE
  IN [x |-> Fin(p.x + winScroll.x + (IF isScoped THEN contScroll.x ELSE 0)),
      y |-> Fin(p.y + winScroll.y + (IF isScoped THEN contScroll.y ELSE 0))]

\* C16: a click outside the widget starts Creating at the click's document
\* position when it finds the overlay Browsing with NavigationMode off; a
\* click in any other state, or inside the widget, changes nothing of the
\* overlay's state.
C16_BackgroundClickStartsCreatingOnlyWhenBrowsing ==
  Handled("click") =>
    IF WasBrowsing(LastEvent.pre) /\ ~LastEvent.pre.isNavigationMode
       /\ ~LastEvent.arg
    THEN /\ Creating /\ activeCommentId = NoId
         /\ newCommentPosition = Some(ClickDocPosition)
         /\ comments = LastEvent.pre.comments
    ELSE ModeSnapshot = LastEvent.pre

\* a background click that started Creating
C16_Witness ==
  /\ Handled("click") /\ ~LastEvent.arg
  /\ WasBrowsing(LastEvent.pre) /\ ~LastEvent.pre.isNavigationMode
  /\ isCreatingComment /\ newCommentPosition = Some(ClickDocPosition)


\* the submit half of C17: one comment more, at the position the popup had,
\* unresolved and without replies, saved, and its thread is the open one
SubmitAddsOne ==
  Handled("submit") =>
    LET pre == LastEvent.pre
        n == Len(comments)
    IN /\ n = Len(pre.comments) + 1
       /\ SubSeq(comments, 1, n - 1) = pre.comments
       /\ comments[n].x = pre.newCommentPosition[1].x
       /\ comments[n].y = pre.newCommentPosition[1].y
       /\ comments[n].resolved = FALSE /\ comments[n].replies = 0
       /\ lastSaved = Some(comments)
       /\ ~isCreatingComment /\ newCommentPosition = Null
       /\ isVisible /\ activeCommentId = comments[n].id

\* C17: from Creating, submit adds exactly one comment (at newCommentPosition,
\* unresolved, no replies), hands the extended list to saveComments, leaves
\* Creating and opens the new comment's thread; cancel leaves Creating, adds
\* nothing and returns to Browsing.
C17_SubmitAddsOneCancelReturnsToBrowsing ==
  /\ SubmitAddsOne
  /\ Handled("cancel") =>
       (comments = LastEvent.pre.comments /\ ~isCreatingComment /\ Browsing)


RestOf(m) == [m EXCEPT !.isNavigationMode = FALSE]

\* C19: a keydown with Ctrl/Meta held while the overlay is visible turns
\* NavigationMode on; a keyup with no modifier left, or a blur of the window,
\* turns it off; none of the three changes isVisible, activeCommentId,
\* isCreatingComment, newCommentPosition or the comments, so a press followed
\* by the release gives back the state the press found.
C19_NavigationModeIsIndependent ==
  /\ Handled("keydown") =>
       /\ RestOf(ModeSnapshot) = RestOf(LastEvent.pre)
       /\ (LastEvent.arg /\ LastEvent.pre.isVisible) => isNavigationMode
  /\ Handled("keyup") =>
       /\ RestOf(ModeSnapshot) = RestOf(LastEvent.pre)
       /\ ~LastEvent.arg => ~isNavigationMode
  /\ Handled("blur") =>
       /\ RestOf(ModeSnapshot) = RestOf(LastEvent.pre)
       /\ ~isNavigationMode
  /\ ( /\ Len(history) = 2
       /\ history[1].ev = "keydown" /\ history[1].arg
       /\ ~history[1].pre.isNavigationMode
       /\ history[2].ev \in {"keyup", "blur"}
       /\ (history[2].ev = "keyup" => ~history[2].arg) ) =>
       ModeSnapshot = history[1].pre

\* press and release with a thread open
C19_Witness ==
  /\ Len(history) = 2
  /\ history[1].ev = "keydown" /\ history[1].arg
  /\ WasThreadOpen(history[1].pre) /\ ~history[1].pre.isNavigationMode
  /\ history[2].pre.isNavigationMode
  /\ history[2].ev = "keyup" /\ ~history[2].arg
  /\ ThreadOpen /\ ~isNavigationMode


\* timer t fires in this step
TimerFires(t) == t \in DOMAIN timers /\ timers' = WithoutTimer(t)

\* what a step in which a safety timer fires does
SafetyTimerStep ==
  \A t \in DOMAIN timers :
    TimerFires(t) =>
      /\ now - timers[t].start >= SafetyTimeoutMs
      /\ comments' = comments /\ lastSaved' = lastSaved
      /\ activeCommentId' = activeCommentId
      /\ IF timers[t].cleanupCalled
         THEN UNCHANGED <<stateVars, isNavigationMode>>
         ELSE /\ Len(live') = Len(live) - 1
              /\ ~isDragging'[timers[t].id]
              /\ clickStartPos'[timers[t].id] = Null
              /\ \A o \in ended' : o.how = "timeout"

\* C20: the timer set at pointer-down fires no earlier than 5000 ms later; if
\* the session is still live it is ended there (one session less, dragging flag
\* and start point cleared) with no click, no commit and the comments as the
\* moves left them; if the session has ended by pointer-up the timer changes
\* nothing; and every live session is eventually ended.
C20_SafetyValveEndsEverySession ==
  /\ [][SafetyTimerStep]_vars
  /\ (live # <<>>) ~> (live = <<>>)
  /\ (timers # <<>>) ~> (timers = <<>>)

\* a session that had moved its pin is ended by the timer: the pin stays
\* where the moves put it
C20_Witness ==
  /\ \E o \in ended : o.how = "timeout" /\ o.dragged /\ o.elapsed >= SafetyTimeoutMs
  /\ live = <<>> /\ timers = <<>>
  /\ ~isDragging[1] /\ clickStartPos[1] = Null
  /\ comments[1].x # ValveComment.x


\* what a step taken while the overlay is hidden and a session that began
\* before the hide is still live leaves alone
HiddenStepEmitsNothing ==
  (~isVisible /\ live # <<>>) =>
    /\ comments' = comments
    /\ lastSaved' = lastSaved
    /\ \A o \in ended' : ~o.committed /\ ~o.clicked

\* C21: once the overlay has become Hidden with a gesture session in
\* progress, no later move or pointer-up of that session emits a position
\* update, a drop commit or a click, and the committed positions stay as
\* they were at the transition.
C21_HideCancelsSession == [][HiddenStepEmitsNothing]_vars


\* a step in which a save fails: the adapter threw when called, or its
\* promise was rejected
SaveFailureStep ==
  errors' > errors =>
    /\ ~uncaught'
    /\ comments' = lastSaved'[1]
    /\ saves' # saves => (comments' = comments /\ storage' = storage)

\* C22: when the adapter's saveComments rejects or throws, the change made by
\* the create, reply, resolve, delete or position update stays in the UI
\* store: it is there as soon as the operation returns, the failure is logged
\* and changes nothing of the store, and no exception reaches the caller.
C22_SaveFailureKeepsChange ==
  /\ [][SaveFailureStep]_vars
  /\ [](~uncaught /\ (lastSaved # Null => comments = lastSaved[1]))

\* a comment was created, replied to, resolved and moved, every save failed:
\* the store shows all four changes and the adapter has persisted nothing
C22_Witness ==
  /\ errors = 4 /\ saves = <<>> /\ storage = Null
  /\ Len(comments) = 1
  /\ comments[1].replies = 1 /\ comments[1].resolved
  /\ comments[1].x = Fin(340)


ThresholdGate(s) ==
  /\ ~s.emittedEarly
  /\ s.hasDragged => s.farDown > ThresholdSq
  /\ s.nEnter <= 1
  /\ s.hasDragged <=> s.nEnter = 1

\* a session that is Dragging is still Dragging after a step that ends no
\* session
StaysDragging ==
  Len(live') >= Len(live) =>
    \A k \in DOMAIN live : live[k].hasDragged => live'[k].hasDragged

\* C24: a session emits no position update, and does not enter Dragging,
\* before one of its move events is farther than 3 px from its pointer-down
\* point; it enters Dragging at most once, and stays Dragging until it ends.
C24_ThresholdGatesUpdates ==
  /\ [](\A k \in DOMAIN live : ThresholdGate(live[k]))
  /\ [](\A o \in EndedByUp : o.committed => o.farDown > ThresholdSq)
  /\ [][StaysDragging]_vars


\* C25: within one session two position updates emitted from move events are
\* never 16 ms or less apart, and the pointer-up of a session that entered
\* Dragging emits and commits the final position whatever the time since the
\* previous update.
C25_ThrottleAndFinalUpdate ==
  /\ \A k \in DOMAIN live : ~live[k].tooClose
  /\ \A o \in EndedByUp :
       /\ ~o.tooClose
       /\ o.dragged => (o.committed /\ o.storedAtEnd = Some(o.pos))

\* a pointer-up in the same millisecond as the session's last emitted move
\* update still committed its own final position
C25_Witness ==
  \E o \in EndedByUp :
    /\ o.dragged /\ o.emitted /\ o.lastEmitAt = now /\ ~o.tooClose
    /\ o.committed /\ o.storedAtEnd = Some(o.pos)
    /\ now > Epoch + ThrottleMs

\* C26: a session that entered Dragging and ends with the scroll offset that
\* was in effect at its pointer-down commits the pin's position at pointer-down
\* plus the pointer's movement d, whatever scrolls and re-measures came before
\* the pointer-down.
C26_StartTakenAtLiveScroll ==
  \A o \in EndedByUp :
    (o.committed /\ o.upScroll = o.downScroll) =>
      o.pos = [x |-> FAdd(o.pinStart.x, Fin(o.upClient.x - o.downClient.x)),
               y |-> FAdd(o.pinStart.y, Fin(o.upClient.y - o.downClient.y))]

\* the i-th ancestor of element n (n itself for i = 0, body above the top)
RECURSIVE AncestorAt(_, _, _)
AncestorAt(d, n, i) ==
  IF i = 0 \/ n = Body THEN n ELSE AncestorAt(d, d[n].parent, i - 1)

HasOtherSameTagSibling(d, n) ==
  \E m \in DOMAIN d : m # n /\ d[m].parent = d[n].parent /\ d[m].tag = d[n].tag

IndexAmongSameTag(d, n) ==
  Cardinality({m \in DOMAIN d :
                 d[m].parent = d[n].parent /\ d[m].tag = d[n].tag /\ m <= n})

\* the path sel walks up from element e: its last segment is e, the one before
\* its parent, and so on; no segment is body; at most 5 segments; the walk
\* ends at the first ancestor with an id (included), at the element below
\* body, or at the fifth segment
WalksUpFrom(d, e, sel) ==
  LET n == Len(sel)
      At(i) == AncestorAt(d, e, n - i)
  IN /\ n >= 1 /\ n <= MaxPathDepth
     /\ \A i \in 1..n :
          /\ At(i) # Body
          /\ sel[i].tag = d[At(i)].tag
          /\ sel[i].id = d[At(i)].id
          /\ i > 1 => d[At(i)].id = ""
     /\ \/ d[At(1)].id # ""
        \/ d[At(1)].parent = Body
        \/ n = MaxPathDepth

\* C27 as stated: for an element without an id the selector walks up from the
\* element as described, and every segment carries :nth-of-type(n) exactly
\* when its element has another sibling of the same tag, n being its 1-based
\* index among them.
C27_AsStated ==
  (selector # Null /\ dom[target].id = "") =>
    LET sel == selector[1]
    IN /\ WalksUpFrom(dom, target, sel)
       /\ \A i \in DOMAIN sel :
            LET a == AncestorAt(dom, target, Len(sel) - i)
            IN /\ sel[i].nth # 0 <=> HasOtherSameTagSibling(dom, a)
               /\ sel[i].nth # 0 => sel[i].nth = IndexAmongSameTag(dom, a)

\* C27: for an element without an id the selector walks up from the element:
\* at most 5 segments, the last one the element, none of them body, ending
\* (inclusive) at the nearest ancestor with an id; a segment of an element
\* without an id carries :nth-of-type(n) exactly when the element has another
\* sibling of the same tag, n being its 1-based index among them, and the
\* segment of the ancestor with an id is tag#id without :nth-of-type.
C27_PathWalksUpToIdOrDepth ==
  (selector # Null /\ dom[target].id = "") =>
    LET sel == selector[1]
    IN /\ WalksUpFrom(dom, target, sel)
       /\ \A i \in DOMAIN sel :
            LET a == AncestorAt(dom, target, Len(sel) - i)
            IN /\ sel[i].nth # 0 <=> (dom[a].id = "" /\ HasOtherSameTagSibling(dom, a))
               /\ sel[i].nth # 0 => sel[i].nth = IndexAmongSameTag(dom, a)

\* a selector of 5 segments for an element 6 levels below body whose fifth
\* ancestor has an id, the last segment with :nth-of-type(2)
C27_Witness ==
  /\ selector # Null /\ dom[target].id = ""
  /\ Len(selector[1]) = MaxPathDepth
  /\ AncestorAt(dom, target, MaxPathDepth) # Body
  /\ dom[AncestorAt(dom, target, MaxPathDepth)].id # ""
  /\ selector[1][MaxPathDepth].nth = 2

\* a selector that ends at an ancestor with an id which has a sibling of its
\* own tag
C27_WitnessIdStop ==
  /\ selector # Null /\ dom[target].id = ""
  /\ Len(selector[1]) > 1
  /\ selector[1][1].id # ""
  /\ HasOtherSameTagSibling(dom, AncestorAt(dom, target, Len(selector[1]) - 1))

\* the size band of the claim: at least 50 x 50 and 2000 px2, at most 90% of
\* the viewport's width and 90% of its height
InSizeBand(e) ==
  /\ e.w >= 50 /\ e.h >= 50 /\ e.w * e.h >= 2000
  /\ 10 * e.w <= 9 * ViewportSize.x /\ 10 * e.h <= 9 * ViewportSize.y

\* C28: whatever the stack, an element returned by the picker is inside the
\* size band, in the drop handler's copy and in createComment's copy, and
\* whichever pass selected it.
C28_PickedIsInSizeBand ==
  /\ (picked # Null /\ picked[1] # 0) => InSizeBand(stack[picked[1]])
  /\ (comments # <<>> /\ comments[1].selector # NoSel) =>
       \E i \in DOMAIN stack :
         InSizeBand(stack[i]) /\ comments[1].selector = SelectorOfIndex(i)

\* C29: with nothing scrolled between the click and the submit, the viewport
\* point at which createComment hit-tests is the viewport point of the click,
\* in both modes and for every window and container scroll offset, and so the
\* same point the drop handler hit-tests for that document position.
C29_CreateHitTestsClickPoint ==
  (cin # Null /\ cout # Null /\ cout[1].create # Null) =>
    /\ cout[1].create[1] = FPt(cin[1].p)
    /\ cout[1].back # Null => cout[1].create[1] = cout[1].back[1]

\* C30: the overlay is never both creating a new annotation and showing a
\* thread, whatever the sequence of background clicks, pin clicks, submit,
\* cancel, Escape, toggle and API calls.
C30_CreatingExcludesThread == ~(isCreatingComment /\ activeCommentId # NoId)

\* C31: whenever the overlay is hidden no thread is open and no creation is in
\* progress, also after the pointer-up of a pin press that began while the
\* overlay was visible and arrives after a toggle hid it.
C31_HiddenHasNoThreadNoCreation ==
  ~isVisible => (activeCommentId = NoId /\ ~isCreatingComment)

HasComment(cs, id) == \E i \in DOMAIN cs : cs[i].id = id

\* C32: whenever activeCommentId is non-null a comment with that id is in the
\* comment store, after every sequence of create, delete, pin click and store
\* replacement by the initial load or by a subscribe push.
C32_ActiveCommentExists ==
  activeCommentId # NoId => HasComment(comments, activeCommentId)

\* C33: once no gesture session is live no pin is marked as being dragged:
\* after a session that entered Dragging has ended, by pointer-up or by the
\* 5 s safety timeout, draggingCommentId is null again.
C33_NoSessionNoDraggingId == live = <<>> => draggingCommentId = NoId

\* C34: at most one gesture session is live per pin, and so the handlers of
\* one pointer-up never produce both a click and a position commit, nor two
\* commits.
C34_OneSessionPerPin ==
  /\ \A j, k \in DOMAIN live : j # k => live[j].id # live[k].id
  /\ \A o, q \in EndedByUp :
       (o # q /\ o.id = q.id) => ~(o.committed \/ o.clicked) \/ ~(q.committed \/ q.clicked)

\* the step is a position update of a session of pin id: a move handler
\* emitted (it stamps lastDragUpdate) or a pointer-up committed
IsPositionUpdateOf(id) ==
  \/ live # <<>> /\ live' # <<>> /\ lastDragUpdate'[id] # lastDragUpdate[id]
  \/ \E o \in ended' : o.how = "up" /\ o.committed /\ o.id = id

\* the list after the step is the list before it with nothing changed but the
\* x, y and selector of comment id
OnlyPositionChanged(id) ==
  /\ Len(comments') = Len(comments)
  /\ \A i \in DOMAIN comments :
       IF comments[i].id = id
       THEN comments'[i] = [comments[i] EXCEPT !.x = comments'[i].x,
                                               !.y = comments'[i].y,
                                               !.selector = comments'[i].selector]
       ELSE comments'[i] = comments[i]

\* C35: a position update changes only the x, y and selector of its comment;
\* every other comment, and the target's replies and resolved flag, are as in
\* the store immediately before the update, also when the store changed
\* after the gesture session began.
C35_UpdateChangesOnlyPosition ==
  [][\A id \in Ids : IsPositionUpdateOf(id) => OnlyPositionChanged(id)]_vars

\* C36: when a comment was created before the initial load resolved, then
\* once the load has resolved and every save has completed, the comment list
\* of the state and the backing store both hold the comment stored earlier
\* and the one created.
C36_NothingLostAcrossInitialLoad ==
  (load.phase = "settled" /\ saves = <<>> /\ errors = 0 /\ nextId > 1) =>
    /\ HasComment(comments, 1) /\ HasComment(comments, StoredComment.id)
    /\ storage # Null
    /\ HasComment(storage[1], 1) /\ HasComment(storage[1], StoredComment.id)

\* C37: once no pin is hovered or dragged, the host element's inline outline
\* and outline-offset are what they were before the widget first highlighted
\* it, also when that outline was not empty.
C37_HighlightUndoneExactly ==
  (~hl.hovered /\ ~hl.dragging) => hl.style = hl.orig

\* C38: every id in the recently-dropped set is eventually removed from it:
\* its timer fires after 1 s (drop) or 2 s (close) and removes it when the pin
\* is inside the margin-expanded viewport, otherwise after one further delay.
C38_GraceWindowBounded ==
  \A id \in Ids :
    (id \in recentlyDraggedCommentIds) ~> (id \notin recentlyDraggedCommentIds)

\* both kinds of removal have happened and the set is empty again
C38_Witness ==
  /\ grace.removed = {1, 2}
  /\ recentlyDraggedCommentIds = {}
  /\ grace.timers = <<>>

====
